---------------------------- MODULE Spec2Model ----------------------------
(***************************************************************************)
(* A model of the trading bot's core: the paper-trading ledger             *)
(* (paper_trader.py), the candle buffer and the two data feeds             *)
(* (data_feed.py), the signal engine (signal_engine.py) and the two        *)
(* trading systems that wire them together (run_paper.py).                 *)
(*                                                                         *)
(* Numbers.  Python floats are modelled by exact integer arithmetic:       *)
(*   - a price is a whole number of dollars;                               *)
(*   - an entry or exit price after slippage is held as a numerator over   *)
(*     SlipDen (0.05% = 1/2000), so entry = price * (SlipDen +- 1);        *)
(*   - a pnl fraction is a numerator over the position's entry numerator;  *)
(*   - money (balance, margin, pnl) is held in cents, products floored.    *)
(* Every comparison the code makes between prices and fractions is done    *)
(* by cross-multiplication and is exact.                                   *)
(***************************************************************************)
EXTENDS Integers, Sequences, FiniteSets, TLC

VARIABLES
    \* PaperTrader
    starting_balance, balance, min_leverage, max_leverage,
    positions, trades, events, last,
    \* CandleBuffer.data, and what the last call on it did
    data, upsert,
    \* the exchange: per stream, the timestamp of the candle in progress
    xts,
    \* BinanceDataFeed: _connect's position, its locals and the feed's fields
    pc, running, retry_count, ws, stop_called,
    \* _connect's local delay: the seconds of its last asyncio.sleep
    delay,
    \* the candle notifications the last step delivered to the callbacks
    delivered,
    \* SignalEngine.last_signals, the signals the last process call sent to the
    \* callbacks, and the calls made so far: symbol, kind returned, notified
    last_signals, signalled, signal_log,
    \* the first process call made on the engine, kept to compare later calls
    \* with: its arguments, the signal it returned, whether a later call was
    \* given the same arguments, and the signal the last such call returned
    memo,
    \* the callbacks list of each emitter (each callback returns or raises),
    \* and the last _notify_callbacks run: the emitter, the callbacks it
    \* called in order, and whether an exception left it
    callbacks, invoked,
    \* the trading system: per symbol what get_dataframe and get_latest give
    \* (the indicator rows of the 1h and 15m frames, the last 15m close), the
    \* symbols process_candle has run for since that last changed, and the
    \* last call made on the system
    view, processed, sys,
    \* what the last get_stats call returned
    stats,
    \* per symbol, the close_position call a thread is in the middle of: where
    \* it is, its arguments, and the balance and net_pnl it holds
    workers,
    \* TradingBotDashboard: its running flag, the _run_loop threads started so
    \* far (each at the loop test or done), the thread that ran the last loop
    \* body since the last start, and what the last start_bot returned
    bot,
    \* add_1h_indicators: the rows its Supertrend loop has gone over (close and
    \* the bands it used) and the st and direction arrays it has filled
    trend

ledgerVars == <<starting_balance, balance, min_leverage, max_leverage,
                positions, trades, events, last>>

bufferVars == <<data, upsert, xts>>

feedVars == <<pc, running, retry_count, ws, stop_called, delivered, delay>>

signalVars == <<last_signals, signalled, signal_log>>

systemVars == <<view, processed, sys, stats>>

observerVars == <<memo>>

threadVars == <<workers, bot>>

indicatorVars == <<trend>>

callbackVars == <<callbacks, invoked>>

vars == <<ledgerVars, bufferVars, feedVars, signalVars, systemVars, observerVars, threadVars, indicatorVars,
          callbackVars>>

---------------------------------------------------------------------------
(* Bounds of the model *)

\* open_position calls accepted in one run (each appends an OPEN event)
MaxOpens == 2
\* SpecLedgerDeep: update_position is not called on a position already held
\* this many candles (past max_hold_candles, so that a timeout is due)
MaxHold == 33
\* SpecLedger: the same cap where two symbols trade side by side
ShallowHold == 2

\* CandleBuffer(max_candles): 500 in the code
MaxCandles == 3
\* klines one REST fetch returns (limit=200 in fetch_latest, below max_candles)
FetchLimit == 2
\* the exchange's candle timestamps run 1..MaxTime
MaxTime == 2

Symbols == {"BTCUSDT", "ETHUSDT"}
Timeframes == {"15m", "1h"}
\* the (symbol, timeframe) streams of the polling feed, built for one symbol
FeedKeys == {<<"BTCUSDT", "15m">>, <<"BTCUSDT", "1h">>}
\* the stream of the websocket feed, built for one symbol and one timeframe
StreamKeys == {<<"BTCUSDT", "15m">>}
\* the keys direct add_candle calls are made on, and the timestamps tried on
\* each: any order of any timestamps on the first key, refinements of one
\* candle on the second
BufferKeys == {<<"BTCUSDT", "15m">>, <<"ETHUSDT", "15m">>}
BufferTimes(key) == IF key = <<"BTCUSDT", "15m">> THEN 1..MaxTime ELSE {1}
\* close prices a candle in progress can show
Values == {1, 2}
\* SignalEngine.process calls in one run
MaxProcess == 3
\* SpecCallbacks: trade events, process calls and stored candles in one run
MaxNotes == 4
DeepSymbols == {"BTCUSDT"}
\* prices fed to the ledger, in dollars
OpenPrices == {100}
UpdatePrices == {99, 100, 101, 102}
\* SpecLedger: the prices update_position is called with where two symbols
\* trade side by side (flat, and past take_profit or stop_loss)
ShallowPrices == {100, 102}
\* signal conviction in fifths (score / 5)
Convictions == {3}
DeepConvictions == {3}
\* constructor arguments tried: <<starting balance in cents, min_lev, max_lev>>
Configs == {<<1000000, 10, 50>>, <<100000, 1, 3>>}
\* direct close_position calls
ClosePrices == {100}
\* SpecSizing: the convictions score / 5.0 can take, in fifths, and the
\* constructor configurations: balances (in cents) below, around and above the
\* 2,000 dollars at which 5% of the balance is the margin floor
AllConvictions == 0..5
SizingConfigs == {<<100000, 1, 3>>, <<400000, 1, 2>>, <<1000000, 10, 50>>,
                  <<10000000, 5, 5>>}
CloseReasons == {"TIMEOUT"}
\* signal kinds a caller can pass
Kinds == {"BUY", "SELL", "HOLD"}

---------------------------------------------------------------------------
(* Program constants of PaperTrader.__init__ *)

\* slippage_pct = 0.0005 = 1 / SlipDen
SlipDen == 2000
\* tp_pct = 0.015 = TpNum / PctDen, sl_pct = 0.008 = SlNum / PctDen,
\* trail_pct = 0.007 = TrailNum / PctDen
PctDen == 1000
TpNum == 15
SlNum == 8
TrailNum == 7
max_hold_candles == 32
\* risk_per_trade = 0.02 = 1 / RiskDen, margin cap 0.05 = 1 / CapDen
RiskDen == 50
CapDen == 20
\* the margin floor, 100 dollars, in cents
MarginFloor == 10000
\* round-trip cost 0.0008 = 1 / CostDen
CostDen == 1250

---------------------------------------------------------------------------
(* Helpers *)

Max(a, b) == IF a >= b THEN a ELSE b
Min(a, b) == IF a <= b THEN a ELSE b

\* floor(a * b / c) for a >= 0, c > 0 without forming a * b
MulDiv(a, b, c) == (a \div c) * b + ((a % c) * b) \div c

\* numpy.clip(x, lo, hi) = minimum(hi, maximum(x, lo)), also when lo > hi
np_clip(x, lo, hi) == Min(hi, Max(x, lo))

NoReturn == "none"

has_position(symbol) == symbol \in DOMAIN positions

\* price after entry slippage, over SlipDen
EntryN(direction, price) ==
    IF direction = "BUY" THEN price * (SlipDen + 1) ELSE price * (SlipDen - 1)

\* price after exit slippage, over SlipDen
ExitN(direction, price) ==
    IF direction = "BUY" THEN price * (SlipDen - 1) ELSE price * (SlipDen + 1)

\* (current_price - entry_price) / entry_price in the position's direction,
\* as a numerator over pos.entry_price
PnlN(pos, priceN) ==
    IF pos.direction = "BUY" THEN priceN - pos.entry_price
    ELSE pos.entry_price - priceN

\* the margin floored at 100 dollars and not capped
MarginNoCap(bal, conv5) ==
    Max((bal * (5 + conv5)) \div (RiskDen * 10), MarginFloor)

\* margin = np.clip(balance * 0.02 * (0.5 + conviction * 0.5), 100, balance * 0.05)
Margin(bal, conv5) ==
    np_clip((bal * (5 + conv5)) \div (RiskDen * 10), MarginFloor, bal \div CapDen)

\* conviction times max_leverage added to min_leverage, not clipped
LeverageOverMin(minl, maxl, conv5) == minl + (conv5 * maxl) \div 5

\* leverage = np.clip(int(min + conviction * (max - min)), min, max)
Leverage(minl, maxl, conv5) ==
    np_clip(minl + (conv5 * (maxl - minl)) \div 5, minl, maxl)

\* take profit measured from the signal price, before entry slippage
TpHitRaw(pos, price) ==
    IF pos.direction = "BUY"
    THEN price * PctDen * (SlipDen + 1) >= pos.entry_price * (PctDen + TpNum)
    ELSE price * PctDen * (SlipDen - 1) <= pos.entry_price * (PctDen - TpNum)

\* current_price >= tp_price (BUY) / <= tp_price (SELL): tp = entry * (1 +- tp_pct)
TpHit(pos, price) ==
    IF pos.direction = "BUY"
    THEN price * SlipDen * PctDen >= pos.entry_price * (PctDen + TpNum)
    ELSE price * SlipDen * PctDen <= pos.entry_price * (PctDen - TpNum)

\* current_price <= sl_price (BUY) / >= sl_price (SELL): sl = entry * (1 -+ sl_pct)
SlHit(pos, price) ==
    IF pos.direction = "BUY"
    THEN price * SlipDen * PctDen <= pos.entry_price * (PctDen - SlNum)
    ELSE price * SlipDen * PctDen >= pos.entry_price * (PctDen + SlNum)

\* a trailing stop armed from the open
TrailArmedAlways(pos, maxN) == TRUE

\* max_pnl_pct > trail_pct
TrailArmed(pos, maxN) == maxN * PctDen > pos.trail_pct * pos.entry_price

\* pnl_pct < max_pnl_pct - trail_pct
TrailRetraced(pos, pnlN, maxN) ==
    pnlN * PctDen < maxN * PctDen - pos.trail_pct * pos.entry_price

\* the chain with the timeout tested first
ExitReasonTimeoutFirst(pos, price) ==
    LET pnlN == PnlN(pos, price * SlipDen) IN
    IF pos.hold_candles >= max_hold_candles THEN "TIMEOUT"
    ELSE IF TpHit(pos, price) THEN "TP"
    ELSE IF SlHit(pos, price) THEN "SL"
    ELSE IF TrailArmed(pos, pos.max_pnl_pct)
         THEN (IF TrailRetraced(pos, pnlN, pos.max_pnl_pct) THEN "TRAIL" ELSE NoReturn)
    ELSE NoReturn

\* the if / elif chain of update_position, on the position after the
\* hold_candles increment and the max_pnl_pct update
ExitReason(pos, price) ==
    LET pnlN == PnlN(pos, price * SlipDen) IN
    IF TpHit(pos, price) THEN "TP"
    ELSE IF SlHit(pos, price) THEN "SL"
    ELSE IF TrailArmed(pos, pos.max_pnl_pct)
         THEN (IF TrailRetraced(pos, pnlN, pos.max_pnl_pct) THEN "TRAIL" ELSE NoReturn)
    ELSE IF pos.hold_candles >= max_hold_candles THEN "TIMEOUT"
    ELSE NoReturn

\* the net pnl without the round-trip costs
NetPnlNoCosts(pos, exit_price) ==
    LET pnlN == PnlN(pos, ExitN(pos.direction, exit_price))
    IN  MulDiv(pos.margin * pos.leverage, pnlN, pos.entry_price)

\* the Trade close_position records, and the net pnl it books
NetPnl(pos, exit_price) ==
    LET pnlN == PnlN(pos, ExitN(pos.direction, exit_price))
        notional == pos.margin * pos.leverage
        gross == MulDiv(notional, pnlN, pos.entry_price)
        costs == notional \div CostDen
    IN  gross - costs

MakeTrade(pos, exit_price, reason) ==
    [symbol |-> pos.symbol, direction |-> pos.direction,
     entry_price |-> pos.entry_price,
     exit_price |-> ExitN(pos.direction, exit_price),
     leverage |-> pos.leverage, margin |-> pos.margin,
     pnl |-> NetPnl(pos, exit_price),
     exit_reason |-> reason, conviction |-> 0]

Remove(f, k) == [x \in DOMAIN f \ {k} |-> f[x]]

\* a close that also pays the margin back into the balance
ClosedReturnsMargin(pos, exit_price, reason) ==
    /\ balance' = balance + pos.margin + NetPnl(pos, exit_price)
    /\ trades' = Append(trades, MakeTrade(pos, exit_price, reason))
    /\ positions' = Remove(positions, pos.symbol)
    /\ events' = Append(events,
                    [type |-> "CLOSE", symbol |-> pos.symbol,
                     direction |-> pos.direction,
                     exit_price |-> ExitN(pos.direction, exit_price),
                     pnl |-> NetPnl(pos, exit_price), reason |-> reason])

\* the state change of close_position on an open position pos
Closed(pos, exit_price, reason) ==
    /\ balance' = balance + NetPnl(pos, exit_price)
    /\ trades' = Append(trades, MakeTrade(pos, exit_price, reason))
    /\ positions' = Remove(positions, pos.symbol)
    /\ events' = Append(events,
                    [type |-> "CLOSE", symbol |-> pos.symbol,
                     direction |-> pos.direction,
                     exit_price |-> ExitN(pos.direction, exit_price),
                     pnl |-> NetPnl(pos, exit_price), reason |-> reason])

---------------------------------------------------------------------------
(* _notify_callbacks, the same loop in PaperTrader, SignalEngine and the feeds *)

Emitters == {"feed", "engine", "trader"}

\* the for loop from callback i on; with guarded, each call is inside
\* try/except Exception, which logs and goes on; without, the first callback
\* that raises ends the loop and the exception leaves it
RECURSIVE Invoke(_, _, _)
Invoke(cbs, i, guarded) ==
    IF i > Len(cbs) THEN [calls |-> <<>>, raised |-> FALSE]
    ELSE IF cbs[i] = "raises" /\ ~guarded THEN [calls |-> <<i>>, raised |-> TRUE]
    ELSE LET rest == Invoke(cbs, i + 1, guarded)
         IN  [calls |-> <<i>> \o rest.calls, raised |-> rest.raised]

\* the loop without the try/except
notify_callbacks_unguarded(cbs) == Invoke(cbs, 1, FALSE)

\* _notify_callbacks over the list cbs
notify_callbacks(cbs) == Invoke(cbs, 1, TRUE)

\* the record of a run for emitter
Invoked(emitter) == [emitter |-> emitter] @@ notify_callbacks(callbacks[emitter])

NoInvoked == [emitter |-> "", calls |-> <<>>, raised |-> FALSE]

\* _setup_callbacks: one callback on each emitter
Wired == [e \in Emitters |-> <<"ok">>]

\* add_callback calls made before the run
Subscribers(cbs) ==
    /\ callbacks = cbs
    /\ invoked = NoInvoked

\* the engine notifies when process sends a signal to the callbacks
EngineNotified ==
    /\ invoked' = IF signalled' # <<>> THEN Invoked("engine") ELSE invoked
    /\ UNCHANGED callbacks

\* a feed notifies when it delivers a candle
FeedNotified ==
    /\ invoked' = IF delivered' # {} THEN Invoked("feed") ELSE invoked
    /\ UNCHANGED callbacks

\* a ledger whose callbacks run before it stores the change
TraderInvokedBefore ==
    Invoked("trader")
        @@ [seen |-> [held |-> DOMAIN positions, balance |-> balance,
                      trades |-> Len(trades)]]

\* the record of a run of the ledger's callbacks, with the ledger they find:
\* open_position and close_position notify after their last change to it
TraderInvoked ==
    Invoked("trader")
        @@ [seen |-> [held |-> DOMAIN positions', balance |-> balance',
                      trades |-> Len(trades')]]

\* the ledger notifies when it appends an event
TraderNotified ==
    /\ invoked' = IF Len(events') > Len(events) THEN TraderInvoked ELSE invoked
    /\ UNCHANGED callbacks

---------------------------------------------------------------------------
(* PaperTrader *)

\* the last call made on the ledger: the operation, its symbol, the value it
\* returned and, for update_position, hold_candles after the increment
NoCall == [op |-> "init", symbol |-> "", hold |-> 0, ret |-> NoReturn]

\* PaperTrader.__init__(starting_balance, min_leverage, max_leverage)
PaperTrader(bal, minl, maxl) ==
    /\ starting_balance = bal
    /\ balance = bal
    /\ min_leverage = minl
    /\ max_leverage = maxl
    /\ positions = <<>>
    /\ trades = <<>>
    /\ events = <<>>
    /\ last = NoCall

\* the Position open_position builds; entry_price over SlipDen, margin in
\* cents, conviction in fifths, trail_pct over PctDen
NewPosition(symbol, kind, price, conv5) ==
    [symbol |-> symbol, direction |-> kind,
     entry_price |-> EntryN(kind, price),
     leverage |-> Leverage(min_leverage, max_leverage, conv5),
     margin |-> Margin(balance, conv5),
     trail_pct |-> TrailNum, max_pnl_pct |-> 0, hold_candles |-> 0]

\* the data of the OPEN event
OpenEvent(pos) ==
    [type |-> "OPEN", symbol |-> pos.symbol, direction |-> pos.direction,
     entry_price |-> pos.entry_price, margin |-> pos.margin,
     leverage |-> pos.leverage]

\* open_position without the has_position test: a second open overwrites
open_position_overwrite(symbol, kind, price, conv5) ==
    /\ UNCHANGED <<starting_balance, balance, min_leverage, max_leverage, trades>>
    /\ UNCHANGED <<bufferVars, feedVars, signalVars, systemVars, observerVars, threadVars, indicatorVars>>
    /\ IF kind \notin {"BUY", "SELL"}
       THEN /\ UNCHANGED <<positions, events>>
            /\ last' = [op |-> "open", symbol |-> symbol, hold |-> 0, ret |-> "False"]
       ELSE /\ positions' = [s \in DOMAIN positions \cup {symbol} |->
                               IF s = symbol THEN NewPosition(symbol, kind, price, conv5)
                               ELSE positions[s]]
            /\ events' = Append(events,
                            OpenEvent(NewPosition(symbol, kind, price, conv5)))
            /\ last' = [op |-> "open", symbol |-> symbol, hold |-> 0, ret |-> "True"]
    /\ TraderNotified

\* open_position debiting the margin from the balance on an accepted open
OpenedDebitsMargin(symbol, kind, price, conv5) ==
    /\ UNCHANGED <<starting_balance, min_leverage, max_leverage, trades>>
    /\ IF has_position(symbol) \/ kind \notin {"BUY", "SELL"}
       THEN /\ UNCHANGED <<positions, events, balance>>
            /\ last' = [op |-> "open", symbol |-> symbol, hold |-> 0, ret |-> "False"]
       ELSE /\ positions' = positions @@ (symbol :> NewPosition(symbol, kind, price, conv5))
            /\ balance' = balance - Margin(balance, conv5)
            /\ events' = Append(events,
                            OpenEvent(NewPosition(symbol, kind, price, conv5)))
            /\ last' = [op |-> "open", symbol |-> symbol, hold |-> 0, ret |-> "True"]

\* the state change of open_position on the ledger
Opened(symbol, kind, price, conv5) ==
    /\ UNCHANGED <<starting_balance, balance, min_leverage, max_leverage, trades>>
    /\ IF has_position(symbol) \/ kind \notin {"BUY", "SELL"}
       THEN /\ UNCHANGED <<positions, events>>
            /\ last' = [op |-> "open", symbol |-> symbol, hold |-> 0, ret |-> "False"]
       ELSE /\ positions' = positions @@ (symbol :> NewPosition(symbol, kind, price, conv5))
            /\ events' = Append(events,
                            OpenEvent(NewPosition(symbol, kind, price, conv5)))
            /\ last' = [op |-> "open", symbol |-> symbol, hold |-> 0, ret |-> "True"]

\* PaperTrader.open_position(signal), called directly
open_position(symbol, kind, price, conv5) ==
    /\ Opened(symbol, kind, price, conv5)
    /\ TraderNotified
    /\ UNCHANGED <<bufferVars, feedVars, signalVars, systemVars, observerVars, threadVars, indicatorVars>>

\* update_position setting max_pnl_pct to the current pnl_pct
UpdatedToCurrent(symbol, current_price) ==
    /\ UNCHANGED <<starting_balance, min_leverage, max_leverage>>
    /\ IF ~has_position(symbol)
       THEN /\ UNCHANGED <<balance, positions, trades, events>>
            /\ last' = [op |-> "update", symbol |-> symbol, hold |-> 0, ret |-> NoReturn]
       ELSE LET old == positions[symbol]
                pnlN == PnlN(old, current_price * SlipDen)
                pos == [old EXCEPT !.hold_candles = @ + 1,
                                   !.max_pnl_pct = pnlN]
                reason == ExitReason(pos, current_price)
            IN  /\ last' = [op |-> "update", symbol |-> symbol, hold |-> pos.hold_candles,
                            ret |-> reason]
                /\ IF reason # NoReturn
                   THEN Closed(pos, current_price, reason)
                   ELSE /\ positions' = [positions EXCEPT ![symbol] = pos]
                        /\ UNCHANGED <<balance, trades, events>>

\* the state change of update_position on the ledger
Updated(symbol, current_price) ==
    /\ UNCHANGED <<starting_balance, min_leverage, max_leverage>>
    /\ IF ~has_position(symbol)
       THEN /\ UNCHANGED <<balance, positions, trades, events>>
            /\ last' = [op |-> "update", symbol |-> symbol, hold |-> 0, ret |-> NoReturn]
       ELSE LET old == positions[symbol]
                pnlN == PnlN(old, current_price * SlipDen)
                pos == [old EXCEPT !.hold_candles = @ + 1,
                                   !.max_pnl_pct = Max(@, pnlN)]
                reason == ExitReason(pos, current_price)
            IN  /\ last' = [op |-> "update", symbol |-> symbol, hold |-> pos.hold_candles,
                            ret |-> reason]
                /\ IF reason # NoReturn
                   THEN Closed(pos, current_price, reason)
                   ELSE /\ positions' = [positions EXCEPT ![symbol] = pos]
                        /\ UNCHANGED <<balance, trades, events>>

\* PaperTrader.update_position(symbol, current_price), called directly
update_position(symbol, current_price) ==
    /\ Updated(symbol, current_price)
    /\ TraderNotified
    /\ UNCHANGED <<bufferVars, feedVars, signalVars, systemVars, observerVars, threadVars, indicatorVars>>

\* close_position taking a missing position for one closed flat: it reports a
\* CLOSE event with no pnl
close_position_flat(symbol, exit_price, reason) ==
    /\ UNCHANGED <<starting_balance, min_leverage, max_leverage>>
    /\ UNCHANGED <<bufferVars, feedVars, signalVars, systemVars, observerVars, threadVars, indicatorVars>>
    /\ last' = [op |-> "close", symbol |-> symbol, hold |-> 0, ret |-> NoReturn]
    /\ IF ~has_position(symbol)
       THEN /\ events' = Append(events,
                            [type |-> "CLOSE", symbol |-> symbol, direction |-> "",
                             exit_price |-> exit_price * SlipDen, pnl |-> 0,
                             reason |-> reason])
            /\ UNCHANGED <<balance, positions, trades>>
       ELSE Closed(positions[symbol], exit_price, reason)
    /\ TraderNotified

\* PaperTrader.close_position(symbol, exit_price, reason), called directly; it
\* has no return value on either path
close_position(symbol, exit_price, reason) ==
    /\ UNCHANGED <<starting_balance, min_leverage, max_leverage>>
    /\ UNCHANGED <<bufferVars, feedVars, signalVars, systemVars, observerVars, threadVars, indicatorVars>>
    /\ last' = [op |-> "close", symbol |-> symbol, hold |-> 0, ret |-> NoReturn]
    /\ IF ~has_position(symbol)
       THEN UNCHANGED <<balance, positions, trades, events>>
       ELSE Closed(positions[symbol], exit_price, reason)
    /\ TraderNotified

Opens == Cardinality({i \in 1..Len(events) : events[i].type = "OPEN"})

HoldOf(symbol) == IF has_position(symbol) THEN positions[symbol].hold_candles ELSE 0

\* the calls a runner makes, for the given symbols and inputs
LedgerCalls(symbols, convictions, prices, holdCap) ==
    \E symbol \in symbols :
        \/ \E kind \in Kinds, price \in OpenPrices, conv5 \in convictions :
               /\ Opens < MaxOpens
               /\ open_position(symbol, kind, price, conv5)
        \/ \E price \in prices :
               /\ HoldOf(symbol) < holdCap
               /\ update_position(symbol, price)
        \/ \E price \in ClosePrices, reason \in CloseReasons :
               close_position(symbol, price, reason)

NextLedger == LedgerCalls(Symbols, Convictions, ShallowPrices, ShallowHold)

NextSizing == LedgerCalls(DeepSymbols, AllConvictions, ShallowPrices, ShallowHold)

\* SpecExits: signal prices, and the closes a candle can then show: around
\* 200, either side of each take_profit and stop_loss; from 420, the 421,
\* 423, 425 of the module's own test (42000 and 42100, 42300, 42500 in
\* hundreds) and a close below stop_loss
ExitOpenPrices == {200, 420}

ExitUpdatePrices(symbol) ==
    IF has_position(symbol) /\ positions[symbol].entry_price > 300 * SlipDen
    THEN {416, 421, 423, 425}
    ELSE {196, 197, 198, 199, 201, 202, 203, 204}

NextExits ==
    \E symbol \in DeepSymbols :
        \/ \E kind \in {"BUY", "SELL"}, price \in ExitOpenPrices, conv5 \in Convictions :
               /\ Opens < MaxOpens
               /\ open_position(symbol, kind, price, conv5)
        \/ \E price \in ExitUpdatePrices(symbol) :
               /\ HoldOf(symbol) <= ShallowHold
               /\ update_position(symbol, price)

NextLedgerDeep == LedgerCalls(DeepSymbols, DeepConvictions, UpdatePrices, MaxHold)

---------------------------------------------------------------------------
(* PaperTrader.get_stats *)

RECURSIVE SumPnl(_)
\* sum(t.pnl for t in trs)
SumPnl(trs) == IF trs = <<>> THEN 0 ELSE Head(trs).pnl + SumPnl(Tail(trs))

IsWinner(t) == t.pnl > 0
IsLoser(t) == t.pnl <= 0

\* round(a / b) to the nearest integer, for a >= 0 and b > 0; with a in
\* hundredths this is round(x, 2) of the quotient
RoundDiv(a, b) == (2 * a + b) \div (2 * b)

NoStats == [total_trades |-> -1]

\* get_stats with the division by the loss total not guarded
GetStatsUnguarded(trs, bal, start) ==
    LET n == Len(trs)
        winners == SelectSeq(trs, IsWinner)
        losers == SelectSeq(trs, IsLoser)
        total_loss == -SumPnl(losers)
    IN  IF n = 0
        THEN [total_trades |-> 0, balance |-> bal, return_pct |-> 0]
        ELSE [total_trades |-> n, winners |-> Len(winners), losers |-> Len(losers),
              profit_factor |-> IF total_loss > 0
                                THEN RoundDiv(SumPnl(winners) * 100, total_loss)
                                ELSE "ZeroDivisionError"]

\* the dict get_stats returns; money in cents, win_rate, profit_factor and
\* return_pct in hundredths, "inf" for the infinite profit factor; starting
\* balances are whole dollars
GetStats(trs, bal, start) ==
    LET n == Len(trs)
        winners == SelectSeq(trs, IsWinner)
        losers == SelectSeq(trs, IsLoser)
        total_win == SumPnl(winners)
        total_loss == -SumPnl(losers)
        diff == bal - start
    IN  IF n = 0
        THEN [total_trades |-> 0, balance |-> bal, return_pct |-> 0]
        ELSE [total_trades |-> n,
              winners |-> Len(winners),
              losers |-> Len(losers),
              win_rate |-> RoundDiv(Len(winners) * 10000, n),
              profit_factor |-> IF total_loss > 0
                                THEN RoundDiv(total_win * 100, total_loss)
                                ELSE "inf",
              total_pnl |-> SumPnl(trs),
              avg_win |-> IF Len(winners) > 0
                          THEN RoundDiv(total_win, Len(winners)) ELSE 0,
              avg_loss |-> IF Len(losers) > 0
                           THEN -RoundDiv(total_loss, Len(losers)) ELSE 0,
              balance |-> bal,
              return_pct |-> IF diff >= 0
                             THEN RoundDiv(diff * 100, start \div 100)
                             ELSE -RoundDiv(-diff * 100, start \div 100)]

\* the keys print_summary reads with stats[...]; the others it reads with
\* stats.get(..., 0)
SummaryKeys == {"total_trades", "win_rate", "profit_factor", "balance", "return_pct"}

\* print_summary raises KeyError when the dict lacks a key it subscripts
PrintSummaryRaises(st) == ~(SummaryKeys \subseteq DOMAIN st)

\* PaperTrader.get_stats()
get_stats ==
    /\ stats' = GetStats(trades, balance, starting_balance)
    /\ UNCHANGED <<view, processed, sys>>
    /\ UNCHANGED <<ledgerVars, bufferVars, feedVars, signalVars, observerVars, threadVars, indicatorVars, callbackVars>>

---------------------------------------------------------------------------
(* CandleBuffer *)

Candle(ts, close) == [timestamp |-> ts, close |-> close]

\* the close a candle ends with once the exchange has closed it
FinalClose(ts) == 1

\* add_candle without the pop: the list grows past max_candles
AddCandleNoPop(candles, candle) ==
    IF Len(candles) > 0 /\ candles[Len(candles)].timestamp = candle.timestamp
    THEN [candles EXCEPT ![Len(candles)] = candle]
    ELSE Append(candles, candle)

\* add_candle without the same-timestamp test: every candle is appended
AddCandleNoUpdate(candles, candle) ==
    LET appended == Append(candles, candle)
    IN  IF Len(appended) > MaxCandles THEN Tail(appended) ELSE appended

\* the list operation of add_candle on one key's list
AddCandle(candles, candle) ==
    IF Len(candles) > 0 /\ candles[Len(candles)].timestamp = candle.timestamp
    THEN [candles EXCEPT ![Len(candles)] = candle]
    ELSE LET appended == Append(candles, candle)
         IN  IF Len(appended) > MaxCandles THEN Tail(appended) ELSE appended

Series(buf, key) == IF key \in DOMAIN buf THEN buf[key] ELSE <<>>

\* CandleBuffer.add_candle on the whole buffer
Added(buf, key, candle) ==
    [k \in DOMAIN buf \cup {key} |->
        IF k = key THEN AddCandle(Series(buf, key), candle) ELSE buf[k]]

MinTs(candles) ==
    CHOOSE t \in {candles[i].timestamp : i \in 1..Len(candles)} :
        \A i \in 1..Len(candles) : t <= candles[i].timestamp

\* what one add_candle call did: "update" (replaced the last candle),
\* "append", or "evict" (appended and popped the first); for "evict" the
\* timestamp popped and the smallest timestamp the list held before the pop
Effect(candles, candle) ==
    IF Len(candles) > 0 /\ candles[Len(candles)].timestamp = candle.timestamp
    THEN [kind |-> "update", popped |-> 0, oldest |-> 0]
    ELSE IF Len(candles) + 1 > MaxCandles
         THEN [kind |-> "evict", popped |-> candles[1].timestamp,
               oldest |-> MinTs(Append(candles, candle))]
         ELSE [kind |-> "append", popped |-> 0, oldest |-> 0]

RECURSIVE AddAll(_, _, _)
\* the loop `for k in klines: self.buffer.add_candle(symbol, tf, candle)`
AddAll(buf, key, klines) ==
    IF klines = <<>> THEN buf
    ELSE AddAll(Added(buf, key, Head(klines)), key, Tail(klines))

RECURSIVE Effects(_, _)
\* the effects of that loop's add_candle calls, in order
Effects(candles, klines) ==
    IF klines = <<>> THEN <<>>
    ELSE <<Effect(candles, Head(klines))>>
         \o Effects(AddCandle(candles, Head(klines)), Tail(klines))

\* what the exchange returns for a stream whose candle in progress is ts and
\* shows close v: the last `limit` candles, oldest first
Klines(ts, v, limit) ==
    LET first == Max(1, ts - limit + 1)
    IN  [i \in 1..(ts - first + 1) |->
            IF first + i - 1 = ts THEN Candle(ts, v)
            ELSE Candle(first + i - 1, FinalClose(first + i - 1))]

RECURSIVE FetchAll(_, _, _)
\* the loop over symbols and timeframes of fetch_initial_data and fetch_latest:
\* got[key] is 0 when the fetch of key returned nothing or raised, else the
\* close of the candle in progress
FetchAll(buf, keys, got) ==
    IF keys = {} THEN buf
    ELSE LET key == CHOOSE k \in keys : TRUE
             nxt == IF got[key] = 0 THEN buf
                    ELSE AddAll(buf, key, Klines(xts[key], got[key], FetchLimit))
         IN  FetchAll(nxt, keys \ {key}, got)

\* the effects of all add_candle calls of that loop, by key
FetchEffects(buf, keys, got) ==
    [key \in keys |->
        IF got[key] = 0 THEN <<>>
        ELSE Effects(Series(buf, key), Klines(xts[key], got[key], FetchLimit))]

NoUpsert == [op |-> "init"]

\* CandleBuffer.__init__, and the exchange at its first candle
CandleBuffer(keys) ==
    /\ data = <<>>
    /\ upsert = NoUpsert
    /\ xts = [key \in keys |-> 1]

\* CandleBuffer.add_candle(symbol, timeframe, candle), called directly
add_candle(key, candle) ==
    /\ data' = Added(data, key, candle)
    /\ upsert' = [op |-> "add_candle", key |-> key, candle |-> candle,
                  effects |-> <<Effect(Series(data, key), candle)>>]
    /\ UNCHANGED <<xts, ledgerVars, feedVars, signalVars, systemVars, observerVars, threadVars, indicatorVars, callbackVars>>

\* the exchange closes the candle in progress of one stream, unobserved
Tick(key) ==
    /\ xts[key] < MaxTime
    /\ xts' = [xts EXCEPT ![key] = @ + 1]
    /\ delivered' = {}
    /\ UNCHANGED <<data, upsert, pc, running, retry_count, ws, stop_called, delay>>
    /\ UNCHANGED <<ledgerVars, signalVars, systemVars, observerVars, threadVars, indicatorVars, callbackVars>>

NextBuffer ==
    \E key \in BufferKeys : \E ts \in BufferTimes(key), v \in Values :
        add_candle(key, Candle(ts, v))

---------------------------------------------------------------------------
(* SimulatedDataFeed: the polling feed *)

\* SimulatedDataFeed.fetch_latest
fetch_latest(got) ==
    /\ data' = FetchAll(data, FeedKeys, got)
    /\ upsert' = [op |-> "fetch_latest", effects |-> FetchEffects(data, FeedKeys, got)]
    /\ delivered' = {[key |-> key, timestamp |-> xts[key], is_closed |-> TRUE] :
                        key \in {k \in FeedKeys : got[k] # 0}}
    /\ FeedNotified
    /\ UNCHANGED <<xts, pc, running, retry_count, ws, stop_called, delay, ledgerVars, signalVars, systemVars, observerVars, threadVars, indicatorVars>>

NextPoll ==
    \/ \E got \in [FeedKeys -> {0} \cup Values] : fetch_latest(got)
    \/ \E key \in FeedKeys : Tick(key)

---------------------------------------------------------------------------
(* BinanceDataFeed: the websocket feed *)

max_retries == 5
base_delay == 2

\* BinanceDataFeed.__init__
BinanceDataFeed(keys) ==
    /\ pc = "idle"
    /\ running = FALSE
    /\ retry_count = 0
    /\ ws = "None"
    /\ stop_called = FALSE
    /\ delay = 0
    /\ delivered = {}

\* `while self.running or retry_count == 0` decides where _connect goes next
LoopTest(run, retries) == IF run \/ retries = 0 THEN "connecting" ELSE "done"

\* start_async / run_async: fetch_initial_data, then _connect up to its first
\* connection attempt
start(got) ==
    /\ pc = "idle"
    /\ data' = FetchAll(data, StreamKeys, got)
    /\ upsert' = [op |-> "fetch_initial_data",
                  effects |-> FetchEffects(data, StreamKeys, got)]
    /\ retry_count' = 0
    /\ pc' = LoopTest(running, 0)
    /\ delivered' = {}
    /\ UNCHANGED <<xts, running, ws, stop_called, delay, ledgerVars, signalVars, systemVars, observerVars, threadVars, indicatorVars, callbackVars>>

\* websockets.connect succeeds
connect_ok ==
    /\ pc = "connecting"
    /\ ws' = "open"
    /\ running' = TRUE
    /\ retry_count' = 0
    /\ pc' = "streaming"
    /\ delivered' = {}
    /\ UNCHANGED <<data, upsert, xts, stop_called, delay, ledgerVars, signalVars, systemVars, observerVars, threadVars, indicatorVars, callbackVars>>

\* the outer handler giving up at max_retries failures, not past them
FailedAtMax ==
    /\ retry_count' = retry_count + 1
    /\ IF retry_count + 1 >= max_retries
       THEN running' = FALSE /\ pc' = "done" /\ delay' = delay
       ELSE /\ running' = running /\ pc' = "backoff"
            /\ delay' = base_delay * 2 ^ retry_count
    /\ delivered' = {}
    /\ UNCHANGED <<data, upsert, xts, stop_called, ledgerVars, signalVars, systemVars, observerVars, threadVars, indicatorVars, callbackVars>>

\* the outer handler with a delay growing by base_delay per failure
FailedLinear ==
    /\ retry_count' = retry_count + 1
    /\ IF retry_count + 1 > max_retries
       THEN running' = FALSE /\ pc' = "done" /\ delay' = delay
       ELSE /\ running' = running /\ pc' = "backoff"
            /\ delay' = base_delay * (retry_count + 1)
    /\ delivered' = {}
    /\ UNCHANGED <<data, upsert, xts, stop_called, ledgerVars, signalVars, systemVars, observerVars, threadVars, indicatorVars, callbackVars>>

\* the outer `except Exception`: a failed connection attempt, or an exception
\* that escaped the inner loop
Failed ==
    /\ retry_count' = retry_count + 1
    /\ IF retry_count + 1 > max_retries
       THEN running' = FALSE /\ pc' = "done" /\ delay' = delay
       ELSE /\ running' = running /\ pc' = "backoff"
            \* delay = base_delay * (2 ** (retry_count - 1)), after the increment
            /\ delay' = base_delay * 2 ^ retry_count
    /\ delivered' = {}
    /\ UNCHANGED <<data, upsert, xts, stop_called, ledgerVars, signalVars, systemVars, observerVars, threadVars, indicatorVars, callbackVars>>

\* websockets.connect raises
connect_fail ==
    /\ pc = "connecting"
    /\ Failed
    /\ UNCHANGED ws

\* asyncio.sleep(delay) returns and the outer loop tests its condition
backoff_over ==
    /\ pc = "backoff"
    /\ pc' = LoopTest(running, retry_count)
    /\ delivered' = {}
    /\ UNCHANGED <<data, upsert, xts, running, retry_count, ws, stop_called, delay, ledgerVars, signalVars, systemVars, observerVars, threadVars, indicatorVars, callbackVars>>

\* the inner loop's next turn: `while self.running` holds and recv is awaited
\* again, or the loop and the `async with` are left and the outer loop tests
\* its condition
InnerLoopTest == IF running THEN "streaming" ELSE LoopTest(running, retry_count)

\* recv returns a kline message of stream key: add_candle, then the callbacks
recv_kline(key, v, is_closed) ==
    /\ pc = "streaming"
    /\ ws = "open"
    /\ is_closed => xts[key] < MaxTime
    /\ LET candle == Candle(xts[key], IF is_closed THEN FinalClose(xts[key]) ELSE v)
       IN  /\ data' = Added(data, key, candle)
           /\ upsert' = [op |-> "recv", key |-> key, candle |-> candle,
                         effects |-> <<Effect(Series(data, key), candle)>>]
    /\ delivered' = {[key |-> key, timestamp |-> xts[key], is_closed |-> is_closed]}
    /\ xts' = IF is_closed THEN [xts EXCEPT ![key] = @ + 1] ELSE xts
    /\ FeedNotified
    \* an exception leaving _notify_callbacks would reach `except Exception:
    \* break`, as in recv_error
    /\ IF notify_callbacks(callbacks["feed"]).raised
       THEN ws' = "closed" /\ pc' = LoopTest(running, retry_count)
       ELSE ws' = ws /\ pc' = InnerLoopTest
    /\ UNCHANGED <<running, retry_count, stop_called, delay, ledgerVars, signalVars, systemVars, observerVars, threadVars, indicatorVars>>

\* recv times out after 30 s and the ping goes through
recv_timeout ==
    /\ pc = "streaming"
    /\ ws = "open"
    /\ pc' = InnerLoopTest
    /\ delivered' = {}
    /\ UNCHANGED <<data, upsert, xts, running, retry_count, ws, stop_called, delay, ledgerVars, signalVars, systemVars, observerVars, threadVars, indicatorVars, callbackVars>>

\* recv times out and ws.ping() raises inside the handler: the exception
\* leaves the inner loop and reaches the outer `except Exception`
ping_fail ==
    /\ pc = "streaming"
    /\ Failed
    /\ ws' = "closed"

\* a message that does not parse, or a closed socket: `except Exception: break`
recv_error ==
    /\ pc = "streaming"
    /\ ws' = "closed"
    /\ pc' = LoopTest(running, retry_count)
    /\ delivered' = {}
    /\ UNCHANGED <<data, upsert, xts, running, retry_count, stop_called, delay, ledgerVars, signalVars, systemVars, observerVars, threadVars, indicatorVars, callbackVars>>

\* BinanceDataFeed.stop(), called while _connect is suspended
stop ==
    /\ pc # "idle"
    /\ running' = FALSE
    /\ ws' = IF ws = "None" THEN ws ELSE "closed"
    /\ stop_called' = TRUE
    /\ delivered' = {}
    /\ UNCHANGED <<data, upsert, xts, pc, retry_count, delay, ledgerVars, signalVars, systemVars, observerVars, threadVars, indicatorVars, callbackVars>>

NextFeed ==
    \/ \E got \in [StreamKeys -> {0} \cup Values] : start(got)
    \/ connect_ok
    \/ connect_fail
    \/ backoff_over
    \/ \E key \in StreamKeys, v \in Values, is_closed \in BOOLEAN :
           recv_kline(key, v, is_closed)
    \/ recv_timeout
    \/ ping_fail
    \/ recv_error
    \/ stop
    \/ \E key \in StreamKeys : Tick(key)

---------------------------------------------------------------------------
(* SignalEngine *)

(***************************************************************************)
(* A data frame is modelled by its length and the indicator values of its  *)
(* last row (and, for MACD, of the row before): what get_1h_direction and  *)
(* check_15m_entry read.  len = 0 stands for None.  dist_ema13 and         *)
(* vol_ratio are in tenths, so -2.0 is -20 and 0.5 is 5.                   *)
(***************************************************************************)
Frame1h(n, st, e8, e21, e50) ==
    [len |-> n, st_dir |-> st, EMA_8 |-> e8, EMA_21 |-> e21, EMA_50 |-> e50]

Frame15m(n, dist, rsi, macd, sig, prev, body, vol) ==
    [len |-> n, dist_ema13 |-> dist, RSI |-> rsi, MACD |-> macd, MACD_sig |-> sig,
     prev_MACD |-> prev, body |-> body, vol_ratio |-> vol, close |-> 100, ATR_pct |-> 1]

\* the 1h frames tried: too short, full bullish stack, full bearish stack,
\* trend band with partial alignment (both ways), band against the EMAs
Frames1h ==
    {Frame1h(49, 1, 3, 2, 1), Frame1h(50, 1, 3, 2, 1), Frame1h(50, -1, 1, 2, 3),
     Frame1h(50, 1, 3, 2, 2), Frame1h(50, -1, 1, 2, 2), Frame1h(50, -1, 3, 2, 2),
     Frame1h(0, 1, 0, 0, 0)}

\* the 15m frames tried: too short, and rows meeting 5, 3, 2, 1 and 0 of the
\* BUY conditions (0, 1, 3, 4, 5 of the SELL conditions, or fewer)
Frames15m ==
    {Frame15m(29, 0, 50, 1, 0, 0, 1, 6), Frame15m(30, 0, 50, 1, 0, 0, 1, 6),
     Frame15m(30, 0, 50, 0, 1, 1, -1, 6), Frame15m(30, -20, 50, 1, 0, 0, 0, 5),
     Frame15m(30, -20, 70, 1, 0, 0, -1, 5), Frame15m(30, 20, 30, 1, 1, 1, 0, 5),
     Frame15m(30, 17, 50, 0, 1, 1, -1, 6)}

\* the direction before the relaxation: the band and the full stack must agree
get_1h_direction_strict(df_1h) ==
    IF df_1h.len < 50 THEN 0
    ELSE IF /\ df_1h.st_dir = 1
            /\ df_1h.EMA_8 > df_1h.EMA_21 /\ df_1h.EMA_21 > df_1h.EMA_50 THEN 1
    ELSE IF /\ df_1h.st_dir = -1
            /\ df_1h.EMA_8 < df_1h.EMA_21 /\ df_1h.EMA_21 < df_1h.EMA_50 THEN -1
    ELSE 0

get_1h_direction(df_1h) ==
    IF df_1h.len < 50 THEN 0
    ELSE LET st_up == df_1h.st_dir = 1
             st_down == df_1h.st_dir = -1
             ema_up == df_1h.EMA_8 > df_1h.EMA_21 /\ df_1h.EMA_21 > df_1h.EMA_50
             ema_down == df_1h.EMA_8 < df_1h.EMA_21 /\ df_1h.EMA_21 < df_1h.EMA_50
             ema_partial_up == df_1h.EMA_8 > df_1h.EMA_21
             ema_partial_down == df_1h.EMA_8 < df_1h.EMA_21
             bullish == ema_up \/ (st_up /\ ema_partial_up)
             bearish == ema_down \/ (st_down /\ ema_partial_down)
         IN  IF bullish /\ ~bearish THEN 1
             ELSE IF bearish /\ ~bullish THEN -1
             ELSE 0

Count(conditions) == Cardinality({i \in DOMAIN conditions : conditions[i]})

Hold(reason) ==
    [signal |-> "HOLD", score |-> 0, conviction |-> 0, price |-> 0, atr_pct |-> 0,
     reason |-> reason]

ScoreReason(score) ==
    IF score = 0 THEN "Score 0/5 < 2 required" ELSE "Score 1/5 < 2 required"

\* the scorer before the relaxation: 3 conditions required
check_15m_entry_3(df_15m, direction) ==
    IF df_15m.len < 30 THEN Hold("Insufficient data")
    ELSE LET row == df_15m
             buy == <<-20 < row.dist_ema13 /\ row.dist_ema13 < 15,
                      30 < row.RSI /\ row.RSI < 70,
                      row.MACD > row.MACD_sig \/ row.MACD > row.prev_MACD,
                      row.body > 0,
                      row.vol_ratio > 5>>
             sell == <<-15 < row.dist_ema13 /\ row.dist_ema13 < 20,
                       30 < row.RSI /\ row.RSI < 70,
                       row.MACD < row.MACD_sig \/ row.MACD < row.prev_MACD,
                       row.body < 0,
                       row.vol_ratio > 5>>
             score == IF direction = 1 THEN Count(buy) ELSE Count(sell)
         IN  IF score >= 3
             THEN [signal |-> IF direction = 1 THEN "BUY" ELSE "SELL",
                   score |-> score, conviction |-> score, price |-> row.close,
                   atr_pct |-> row.ATR_pct, reason |-> ""]
             ELSE Hold(ScoreReason(score))

\* an entry check that scores the BUY conditions whatever the direction
check_15m_entry_buy(df_15m, direction) ==
    IF df_15m.len < 30 THEN Hold("Insufficient data")
    ELSE LET row == df_15m
             buy == <<-20 < row.dist_ema13 /\ row.dist_ema13 < 15,
                      30 < row.RSI /\ row.RSI < 70,
                      row.MACD > row.MACD_sig \/ row.MACD > row.prev_MACD,
                      row.body > 0,
                      row.vol_ratio > 5>>
             score == Count(buy)
         IN  IF score >= 2
             THEN [signal |-> "BUY",
                   score |-> score, conviction |-> score, price |-> row.close,
                   atr_pct |-> row.ATR_pct, reason |-> ""]
             ELSE Hold(ScoreReason(score))

\* check_15m_entry, with the defaults process reads its result with;
\* conviction = score / 5.0 is kept in fifths
check_15m_entry(df_15m, direction) ==
    IF df_15m.len < 30 THEN Hold("Insufficient data")
    ELSE LET row == df_15m
             buy == <<-20 < row.dist_ema13 /\ row.dist_ema13 < 15,
                      30 < row.RSI /\ row.RSI < 70,
                      row.MACD > row.MACD_sig \/ row.MACD > row.prev_MACD,
                      row.body > 0,
                      row.vol_ratio > 5>>
             sell == <<-15 < row.dist_ema13 /\ row.dist_ema13 < 20,
                       30 < row.RSI /\ row.RSI < 70,
                       row.MACD < row.MACD_sig \/ row.MACD < row.prev_MACD,
                       row.body < 0,
                       row.vol_ratio > 5>>
             score == IF direction = 1 THEN Count(buy) ELSE Count(sell)
         IN  IF score >= 2
             THEN [signal |-> IF direction = 1 THEN "BUY" ELSE "SELL",
                   score |-> score, conviction |-> score, price |-> row.close,
                   atr_pct |-> row.ATR_pct, reason |-> ""]
             ELSE Hold(ScoreReason(score))

\* a signal that gives way to the one stored for the symbol once one is stored
SignalFromStored(symbol, df_1h, df_15m) ==
    LET direction == get_1h_direction(df_1h) IN
    IF symbol \in DOMAIN last_signals /\ last_signals[symbol].signal # "HOLD"
    THEN last_signals[symbol]
    ELSE IF direction = 0
    THEN [symbol |-> symbol, signal |-> "HOLD", direction |-> "NEUTRAL",
          reason |-> "No clear trend (ST and EMA not aligned)"]
    ELSE [symbol |-> symbol,
          direction |-> IF direction = 1 THEN "BULLISH" ELSE "BEARISH"]
         @@ check_15m_entry(df_15m, direction)

\* the signal process builds (its timestamp left out)
Signal(symbol, df_1h, df_15m) ==
    LET direction == get_1h_direction(df_1h) IN
    IF direction = 0
    THEN [symbol |-> symbol, signal |-> "HOLD", direction |-> "NEUTRAL",
          reason |-> "No clear trend (ST and EMA not aligned)"]
    ELSE [symbol |-> symbol,
          direction |-> IF direction = 1 THEN "BULLISH" ELSE "BEARISH"]
         @@ check_15m_entry(df_15m, direction)

\* last.get('signal', 'HOLD') for last = self.last_signals.get(symbol, {})
LastKind(symbol) ==
    IF symbol \in DOMAIN last_signals THEN last_signals[symbol].signal ELSE "HOLD"

\* the test without the comparison with the stored signal
ChangedNoDedup(signal, lastKind) == signal.signal # "HOLD"

\* `if signal['signal'] != last.get('signal', 'HOLD') and signal['signal'] != 'HOLD'`
Changed(signal, lastKind) == signal.signal # lastKind /\ signal.signal # "HOLD"

\* SignalEngine.__init__
NoMemo == [symbol |-> "", df_1h |-> Frame1h(0, 1, 0, 0, 0),
           df_15m |-> Frame15m(0, 0, 50, 1, 0, 0, 1, 6),
           signal |-> [signal |-> "HOLD"], again |-> FALSE,
           repeat |-> [signal |-> "HOLD"]]

SignalEngine ==
    /\ last_signals = <<>>
    /\ signalled = <<>>
    /\ signal_log = <<>>
    /\ memo = NoMemo

\* the state change of process on the engine
Processed(symbol, df_1h, df_15m) ==
    LET signal == Signal(symbol, df_1h, df_15m)
        notify == Changed(signal, LastKind(symbol))
        \* an exception leaving _notify_callbacks would leave process before
        \* the store
        raised == notify /\ notify_callbacks(callbacks["engine"]).raised
    IN  /\ signalled' = IF notify THEN <<signal>> ELSE <<>>
        /\ last_signals' = IF raised THEN last_signals
                           ELSE [s \in DOMAIN last_signals \cup {symbol} |->
                                    IF s = symbol THEN signal ELSE last_signals[s]]
        /\ signal_log' = Append(signal_log,
                               [symbol |-> symbol, kind |-> signal.signal,
                                notified |-> notify])

\* SignalEngine.process(symbol, df_1h, df_15m), called directly
process(symbol, df_1h, df_15m) ==
    /\ Processed(symbol, df_1h, df_15m)
    /\ EngineNotified
    /\ UNCHANGED <<ledgerVars, bufferVars, feedVars, systemVars, observerVars, threadVars, indicatorVars>>

NextSignal ==
    \E symbol \in Symbols, df_1h \in Frames1h, df_15m \in Frames15m :
        /\ Len(signal_log) < MaxProcess
        /\ process(symbol, df_1h, df_15m)

---------------------------------------------------------------------------
(* RealTimeTradingSystem and PollingTradingSystem *)

\* get_dataframe and get_latest of a symbol with no candles: None
NoView == [df_1h |-> Frame1h(0, 1, 0, 0, 0),
           df_15m |-> Frame15m(0, 0, 50, 1, 0, 0, 1, 6), price |-> 0]

\* the 1h frames the store is given: bullish stack, bearish stack, band up
\* with the EMAs not aligned
SystemFrames1h ==
    {Frame1h(50, 1, 3, 2, 1), Frame1h(50, -1, 1, 2, 3), Frame1h(50, 1, 2, 2, 1)}

\* the 15m frames the store is given: 5 BUY conditions met, 1 met
SystemFrames15m ==
    {Frame15m(30, 0, 50, 1, 0, 0, 1, 6), Frame15m(30, 20, 30, 1, 1, 1, 0, 5)}

NoSys == [op |-> "init", symbol |-> "", repeat |-> FALSE]

\* the arrays before the first row
NoTrend == [close |-> <<>>, upper |-> <<>>, lower |-> <<>>, st |-> <<>>,
            direction |-> <<>>]

\* TradingBotDashboard.__init__
NoBot == [running |-> FALSE, loops |-> <<>>, writer |-> 0, ret |-> ""]

\* no close_position call in progress
NoStep == [at |-> "idle", exit_price |-> 0, reason |-> "", balance |-> 0, net_pnl |-> 0]

\* the systems' __init__
TradingSystem ==
    /\ trend = NoTrend
    /\ workers = [s \in Symbols |-> NoStep]
    /\ bot = NoBot
    /\ view = [s \in Symbols |-> NoView]
    /\ processed = {}
    /\ sys = NoSys
    /\ stats = NoStats

\* the data feed stores a closed candle of symbol: the frames and the last
\* close the store gives for it change
store_update(symbol, df_1h, df_15m, price) ==
    /\ view[symbol] # [df_1h |-> df_1h, df_15m |-> df_15m, price |-> price]
    /\ view' = [view EXCEPT ![symbol] =
                    [df_1h |-> df_1h, df_15m |-> df_15m, price |-> price]]
    /\ processed' = processed \ {symbol}
    /\ sys' = [op |-> "store", symbol |-> symbol, repeat |-> FALSE]
    /\ UNCHANGED <<stats, ledgerVars, bufferVars, feedVars, signalVars, observerVars, threadVars, indicatorVars, callbackVars>>

\* a process_candle that opens only on a signal sent to the callbacks
CandleProcessedOnNotified(symbol) ==
    LET v == view[symbol]
        signal == Signal(symbol, v.df_1h, v.df_15m)
    IN  /\ sys' = [op |-> "process_candle", symbol |-> symbol,
                    repeat |-> symbol \in processed]
        /\ processed' = processed \cup {symbol}
        /\ UNCHANGED <<view, observerVars, threadVars, indicatorVars, callbacks>>
        /\ IF v.df_1h.len = 0 \/ v.df_15m.len = 0
           THEN UNCHANGED <<ledgerVars, signalVars>>
           ELSE IF has_position(symbol)
           THEN Updated(symbol, v.price) /\ UNCHANGED signalVars
           ELSE /\ Processed(symbol, v.df_1h, v.df_15m)
                /\ IF signal.signal \in {"BUY", "SELL"} /\ signalled' # <<>>
                   THEN Opened(symbol, signal.signal, v.price, signal.conviction)
                   ELSE UNCHANGED ledgerVars
        /\ IF v.df_1h.len = 0 \/ v.df_15m.len = 0
           THEN UNCHANGED stats
           ELSE stats' = GetStats(trades', balance', starting_balance)
        /\ invoked' = IF Len(events') > Len(events) THEN TraderInvoked
                      ELSE IF /\ v.df_1h.len # 0 /\ v.df_15m.len # 0
                              /\ ~has_position(symbol) /\ signalled' # <<>>
                      THEN Invoked("engine")
                      ELSE invoked

\* the state change of process_candle on the system, the ledger and the
\* engine
CandleProcessed(symbol) ==
    LET v == view[symbol]
        signal == Signal(symbol, v.df_1h, v.df_15m)
    IN  /\ sys' = [op |-> "process_candle", symbol |-> symbol,
                    repeat |-> symbol \in processed]
        /\ processed' = processed \cup {symbol}
        /\ UNCHANGED <<view, observerVars, threadVars, indicatorVars, callbacks>>
        /\ IF v.df_1h.len = 0 \/ v.df_15m.len = 0
           THEN UNCHANGED <<ledgerVars, signalVars>>
           ELSE IF has_position(symbol)
           THEN Updated(symbol, v.price) /\ UNCHANGED signalVars
           ELSE /\ Processed(symbol, v.df_1h, v.df_15m)
                /\ IF signal.signal \in {"BUY", "SELL"}
                   THEN Opened(symbol, signal.signal, v.price, signal.conviction)
                   ELSE UNCHANGED ledgerVars
        /\ IF v.df_1h.len = 0 \/ v.df_15m.len = 0
           THEN UNCHANGED stats
           ELSE stats' = GetStats(trades', balance', starting_balance)
        /\ invoked' = IF Len(events') > Len(events) THEN TraderInvoked
                      ELSE IF /\ v.df_1h.len # 0 /\ v.df_15m.len # 0
                              /\ ~has_position(symbol) /\ signalled' # <<>>
                      THEN Invoked("engine")
                      ELSE invoked

\* process_candle(symbol), of both systems
process_candle(symbol) ==
    /\ CandleProcessed(symbol)
    /\ UNCHANGED <<bufferVars, feedVars>>

\* a callback that calls process_candle on every notification
on_candle_every(symbol, timeframe, timestamp, is_closed) ==
    /\ delivered' = {[key |-> <<symbol, timeframe>>, timestamp |-> timestamp,
                      is_closed |-> is_closed]}
    /\ UNCHANGED <<bufferVars, pc, running, retry_count, ws, stop_called, delay>>
    /\ CandleProcessed(symbol)

\* the callback _setup_callbacks gives the data feed, called by the feed's
\* _notify_callbacks(symbol, timeframe, candle, is_closed) after add_candle
on_candle(symbol, timeframe, timestamp, is_closed) ==
    /\ delivered' = {[key |-> <<symbol, timeframe>>, timestamp |-> timestamp,
                      is_closed |-> is_closed]}
    /\ UNCHANGED <<bufferVars, pc, running, retry_count, ws, stop_called, delay>>
    /\ IF is_closed
       THEN CandleProcessed(symbol)
       ELSE UNCHANGED <<ledgerVars, signalVars, systemVars, observerVars, threadVars, indicatorVars,
                        callbackVars>>

\* what data_feed.stop() does to the feed
FeedStopped ==
    /\ running' = FALSE
    /\ ws' = IF ws = "None" THEN ws ELSE "closed"
    /\ stop_called' = TRUE
    /\ delivered' = {}
    /\ UNCHANGED <<pc, retry_count, delay>>

\* a stop that drops the open positions
system_stop_flat(realtime) ==
    /\ sys' = [op |-> "stop", symbol |-> "", repeat |-> FALSE,
               raised |-> PrintSummaryRaises(GetStats(trades, balance,
                                                      starting_balance))]
    /\ IF realtime THEN FeedStopped ELSE UNCHANGED feedVars
    /\ stats' = GetStats(trades, balance, starting_balance)
    /\ positions' = <<>>
    /\ UNCHANGED <<starting_balance, balance, min_leverage, max_leverage,
                   trades, events, last>>
    /\ UNCHANGED <<view, processed, bufferVars, signalVars, observerVars, threadVars, indicatorVars, callbackVars>>

\* RealTimeTradingSystem.stop() (realtime) and PollingTradingSystem.stop():
\* the feed is stopped, print_summary and get_stats read the ledger
system_stop(realtime) ==
    /\ sys' = [op |-> "stop", symbol |-> "", repeat |-> FALSE,
               raised |-> PrintSummaryRaises(GetStats(trades, balance,
                                                      starting_balance))]
    /\ IF realtime THEN FeedStopped ELSE UNCHANGED feedVars
    /\ stats' = GetStats(trades, balance, starting_balance)
    /\ UNCHANGED <<view, processed, ledgerVars, bufferVars, signalVars, observerVars, threadVars, indicatorVars,
                   callbackVars>>

\* the candle closes that reach the store and the process_candle calls the
\* callback and the polling loop make, until the system is stopped
NextSystem ==
    \/ \E symbol \in DeepSymbols, df_1h \in SystemFrames1h,
          df_15m \in SystemFrames15m, price \in ShallowPrices :
            /\ sys.op # "stop"
            /\ store_update(symbol, df_1h, df_15m, price)
    \/ \E symbol \in DeepSymbols :
            /\ sys.op # "stop"
            /\ Opens < MaxOpens \/ has_position(symbol)
            /\ HoldOf(symbol) < ShallowHold
            /\ Len(signal_log) < MaxProcess
            /\ process_candle(symbol)
    \/ sys.op # "stop" /\ get_stats
    \/ \E realtime \in BOOLEAN : sys.op # "stop" /\ system_stop(realtime)

\* close_position(symbol, exit_price, reason) run by a thread of its own, up to
\* the read of self.balance in `self.balance += net_pnl`: the has_position
\* test, the slippage and the P&L
close_load(symbol, exit_price, reason) ==
    /\ workers[symbol].at = "idle"
    /\ UNCHANGED indicatorVars
    /\ IF ~has_position(symbol)
       THEN /\ last' = [op |-> "close", symbol |-> symbol, hold |-> 0, ret |-> NoReturn]
            /\ UNCHANGED <<workers, bot>>
       ELSE /\ workers' = [workers EXCEPT ![symbol] =
                              [at |-> "loaded", exit_price |-> exit_price,
                               reason |-> reason, balance |-> balance,
                               net_pnl |-> NetPnl(positions[symbol], exit_price)]]
            /\ UNCHANGED <<last, bot>>
    /\ UNCHANGED <<starting_balance, balance, min_leverage, max_leverage,
                   positions, trades, events>>
    /\ UNCHANGED <<bufferVars, feedVars, signalVars, systemVars, observerVars,
                   callbackVars>>

\* the write of `self.balance += net_pnl`: the sum of the balance read and
\* net_pnl is stored
close_store(symbol) ==
    /\ workers[symbol].at = "loaded"
    /\ balance' = workers[symbol].balance + workers[symbol].net_pnl
    /\ workers' = [workers EXCEPT ![symbol].at = "stored"]
    /\ UNCHANGED <<bot, indicatorVars>>
    /\ UNCHANGED <<starting_balance, min_leverage, max_leverage, positions,
                   trades, events, last>>
    /\ UNCHANGED <<bufferVars, feedVars, signalVars, systemVars, observerVars,
                   callbackVars>>

\* the rest of close_position: the Trade is appended, the position deleted,
\* the CLOSE event sent
close_record(symbol) ==
    /\ workers[symbol].at = "stored"
    /\ LET pos == positions[symbol]
           w == workers[symbol]
       IN  /\ trades' = Append(trades, MakeTrade(pos, w.exit_price, w.reason))
           /\ positions' = Remove(positions, symbol)
           /\ events' = Append(events,
                           [type |-> "CLOSE", symbol |-> symbol,
                            direction |-> pos.direction,
                            exit_price |-> ExitN(pos.direction, w.exit_price),
                            pnl |-> w.net_pnl, reason |-> w.reason])
    /\ last' = [op |-> "close", symbol |-> symbol, hold |-> 0, ret |-> NoReturn]
    /\ workers' = [workers EXCEPT ![symbol] = NoStep]
    /\ UNCHANGED <<bot, indicatorVars>>
    /\ UNCHANGED <<starting_balance, balance, min_leverage, max_leverage>>
    /\ TraderNotified
    /\ UNCHANGED <<bufferVars, feedVars, signalVars, systemVars, observerVars>>

\* exit prices of the closes run in threads
ThreadClosePrices == {99, 101}

\* positions are opened for the symbols, and each symbol's close_position runs
\* in a thread of its own, the threads switching between the steps
NextThreads ==
    \E symbol \in Symbols :
        \/ \E kind \in {"BUY", "SELL"}, price \in OpenPrices, conv5 \in Convictions :
               /\ Opens < MaxOpens
               /\ \A s \in Symbols : workers[s].at = "idle"
               /\ open_position(symbol, kind, price, conv5)
        \/ \E price \in ThreadClosePrices, reason \in CloseReasons :
               close_load(symbol, price, reason)
        \/ close_store(symbol)
        \/ close_record(symbol)

\* rows the Supertrend loop goes over
MaxBars == 4
\* closes of the rows, and the bands (lower, upper) hl2 -+ 2.5 atr gives
BarCloses == 1..3
BarBands == {<<0, 2>>, <<1, 3>>, <<2, 4>>}

\* one pass of the Supertrend loop of add_1h_indicators over the next row
\* (the assignments before the loop for the first row); nan: atr, and so
\* both bands, are NaN on the row
supertrend_row(close, band, nan) ==
    LET n == Len(trend.st) IN
    /\ IF n = 0
       THEN trend' = [close |-> <<close>>,
                      upper |-> <<IF nan THEN close ELSE band[2]>>,
                      lower |-> <<IF nan THEN close ELSE band[1]>>,
                      st |-> <<close>>, direction |-> <<0>>]
       ELSE LET prev == trend.st[n]
                ub == IF nan THEN prev ELSE band[2]
                lb == IF nan THEN prev ELSE band[1]
                st1 == IF ub < prev \/ trend.close[n] > prev THEN ub ELSE prev
                up == close > st1
                st2 == IF up THEN (IF trend.direction[n] # 1 THEN lb ELSE st1)
                       ELSE (IF trend.direction[n] # -1 THEN ub ELSE st1)
            IN  trend' = [close |-> Append(trend.close, close),
                          upper |-> Append(trend.upper, ub),
                          lower |-> Append(trend.lower, lb),
                          st |-> Append(trend.st, st2),
                          direction |-> Append(trend.direction,
                                               IF up THEN 1 ELSE -1)]
    /\ UNCHANGED <<ledgerVars, bufferVars, feedVars, signalVars, systemVars,
                   observerVars, threadVars, callbackVars>>

NextSupertrend ==
    \E close \in BarCloses, band \in BarBands, nan \in BOOLEAN :
        /\ Len(trend.st) < MaxBars
        /\ supertrend_row(close, band, nan)

\* _run_loop threads one dashboard starts
MaxThreads == 2

\* TradingBotDashboard.start_bot: refused while running; otherwise new feed,
\* engine and ledger, fetch_latest, running set and a _run_loop thread started
start_bot(symbol, df_1h, df_15m, price) ==
    IF bot.running
    THEN /\ bot' = [bot EXCEPT !.ret = "Bot is already running!"]
         /\ UNCHANGED <<ledgerVars, bufferVars, feedVars, signalVars, systemVars,
                        observerVars, workers, callbackVars, indicatorVars>>
    ELSE /\ bot' = [running |-> TRUE, loops |-> Append(bot.loops, "test"),
                     writer |-> 0, ret |-> "Bot started successfully!"]
         /\ balance' = starting_balance
         /\ positions' = <<>>
         /\ trades' = <<>>
         /\ events' = <<>>
         /\ last' = NoCall
         /\ last_signals' = <<>>
         /\ signalled' = <<>>
         /\ signal_log' = <<>>
         /\ callbacks' = [e \in Emitters |-> <<>>]
         /\ invoked' = NoInvoked
         /\ view' = [s \in Symbols |->
                        IF s = symbol
                        THEN [df_1h |-> df_1h, df_15m |-> df_15m, price |-> price]
                        ELSE NoView]
         /\ processed' = {}
         /\ sys' = [op |-> "start_bot", symbol |-> "", repeat |-> FALSE]
         /\ UNCHANGED <<starting_balance, min_leverage, max_leverage, stats,
                        bufferVars, feedVars, observerVars, workers, indicatorVars>>

\* TradingBotDashboard.stop_bot: the flag is cleared, no thread is joined
stop_bot ==
    /\ bot' = [bot EXCEPT !.running = FALSE, !.ret = "Bot stopped"]
    /\ UNCHANGED <<ledgerVars, bufferVars, feedVars, signalVars, systemVars,
                   observerVars, workers, callbackVars, indicatorVars>>

\* TradingBotDashboard._process_symbol(symbol), the store giving v for it
SymbolProcessed(symbol, v) ==
    LET signal == Signal(symbol, v.df_1h, v.df_15m) IN
    /\ IF v.df_1h.len = 0 \/ v.df_15m.len = 0
       THEN UNCHANGED <<ledgerVars, signalVars>>
       ELSE IF has_position(symbol)
       THEN Updated(symbol, v.price) /\ UNCHANGED signalVars
       ELSE /\ Processed(symbol, v.df_1h, v.df_15m)
            /\ IF signal.signal \in {"BUY", "SELL"}
               THEN Opened(symbol, signal.signal, v.price, signal.conviction)
               ELSE UNCHANGED ledgerVars
    /\ invoked' = IF Len(events') > Len(events) THEN TraderInvoked
                  ELSE IF /\ v.df_1h.len # 0 /\ v.df_15m.len # 0
                          /\ ~has_position(symbol) /\ signalled' # <<>>
                  THEN Invoked("engine")
                  ELSE invoked
    /\ UNCHANGED callbacks

\* thread i of _run_loop tests `while self.running`: it ends, or it runs
\* fetch_latest and _process_symbol and sleeps until the next test
loop_turn(i, symbol, df_1h, df_15m, price) ==
    /\ i \in 1..Len(bot.loops)
    /\ bot.loops[i] = "test"
    /\ IF ~bot.running
       THEN /\ bot' = [bot EXCEPT !.loops[i] = "done"]
            /\ UNCHANGED <<ledgerVars, signalVars, systemVars, callbackVars>>
       ELSE LET v == [df_1h |-> df_1h, df_15m |-> df_15m, price |-> price] IN
            /\ bot' = [bot EXCEPT !.writer = i]
            /\ view' = [view EXCEPT ![symbol] = v]
            /\ processed' = {symbol}
            /\ sys' = [op |-> "process_symbol", symbol |-> symbol, repeat |-> FALSE]
            /\ UNCHANGED stats
            /\ SymbolProcessed(symbol, v)
    /\ UNCHANGED <<bufferVars, feedVars, observerVars, workers, indicatorVars>>

\* the dashboard's buttons and the turns of its threads
NextDashboard ==
    \/ \E symbol \in DeepSymbols, df_1h \in SystemFrames1h,
          df_15m \in SystemFrames15m, price \in ShallowPrices :
            /\ Len(bot.loops) < MaxThreads \/ bot.running
            /\ start_bot(symbol, df_1h, df_15m, price)
    \/ stop_bot
    \/ \E i \in 1..MaxThreads, symbol \in DeepSymbols, df_1h \in SystemFrames1h,
          df_15m \in SystemFrames15m, price \in ShallowPrices :
            /\ Opens < MaxOpens \/ has_position(symbol)
            /\ HoldOf(symbol) < ShallowHold
            /\ Len(signal_log) < MaxProcess
            /\ loop_turn(i, symbol, df_1h, df_15m, price)

\* RealTimeTradingSystem: the closes and updates of both streams of a symbol
\* reach the store and then the callback
NextRealtime ==
    \/ \E symbol \in DeepSymbols, df_1h \in SystemFrames1h,
          df_15m \in SystemFrames15m, price \in ShallowPrices :
            store_update(symbol, df_1h, df_15m, price)
    \/ \E symbol \in DeepSymbols, timeframe \in Timeframes, is_closed \in BOOLEAN :
            /\ Opens < MaxOpens \/ has_position(symbol)
            /\ HoldOf(symbol) < ShallowHold
            /\ Len(signal_log) < MaxProcess
            /\ on_candle(symbol, timeframe, 1, is_closed)

\* what an observer of the calls notes of one: the first call, and every
\* later call given the arguments of the first
Remembered(symbol, df_1h, df_15m) ==
    LET signal == last_signals'[symbol] IN
    memo' = IF memo.symbol = ""
            THEN [symbol |-> symbol, df_1h |-> df_1h, df_15m |-> df_15m,
                  signal |-> signal, again |-> FALSE, repeat |-> signal]
            ELSE IF memo.symbol = symbol /\ memo.df_1h = df_1h
                                         /\ memo.df_15m = df_15m
            THEN [memo EXCEPT !.again = TRUE, !.repeat = signal]
            ELSE memo

\* SignalEngine.process(symbol, df_1h, df_15m), called directly and observed
process_observed(symbol, df_1h, df_15m) ==
    /\ Processed(symbol, df_1h, df_15m)
    /\ Remembered(symbol, df_1h, df_15m)
    /\ EngineNotified
    /\ UNCHANGED <<ledgerVars, bufferVars, feedVars, systemVars, threadVars, indicatorVars>>

\* the 1h frames the observed calls are given: none, and those of the store
ObservedFrames1h == {Frame1h(0, 1, 0, 0, 0)} \cup SystemFrames1h

NextObserved ==
    \E symbol \in Symbols, df_1h \in ObservedFrames1h, df_15m \in SystemFrames15m :
        /\ Len(signal_log) < MaxProcess
        /\ process_observed(symbol, df_1h, df_15m)

\* the callbacks lists tried: a raising callback before a returning one on
\* every emitter; raising callbacks last, in the middle and alone; the lists
\* _setup_callbacks builds
CallbackConfigs ==
    {[e \in Emitters |-> <<"raises", "ok">>],
     [feed |-> <<"ok", "raises">>, engine |-> <<"ok", "raises", "ok">>,
      trader |-> <<"raises", "raises">>],
     Wired}

\* the three emitters at work side by side: ledger calls, process calls, and
\* a feed that starts, connects and receives kline messages
Notes ==
    Len(events) + Len(signal_log)
        + Cardinality({<<key, i>> \in StreamKeys \X (1..MaxCandles) :
                          i <= Len(Series(data, key))})

NextCallbacks ==
    \/ Notes < MaxNotes /\ LedgerCalls(DeepSymbols, Convictions, ShallowPrices, ShallowHold)
    \/ \E symbol \in DeepSymbols, df_1h \in SystemFrames1h, df_15m \in SystemFrames15m :
           /\ Notes < MaxNotes
           /\ Len(signal_log) < MaxProcess
           /\ process(symbol, df_1h, df_15m)
    \/ \E got \in [StreamKeys -> {0}] : start(got)
    \/ connect_ok
    \/ \E key \in StreamKeys, v \in Values, is_closed \in BOOLEAN :
           /\ Notes < MaxNotes
           /\ recv_kline(key, v, is_closed)

\* the 1h frames of SpecTrend: those of Frames1h, a bullish band over a
\* bearish stack, a bearish band over a bullish stack, and EMA_8 = EMA_21
TrendFrames1h ==
    Frames1h \cup {Frame1h(50, 1, 1, 2, 3), Frame1h(50, -1, 3, 2, 1),
                   Frame1h(50, 1, 2, 2, 1)}

\* observed process calls for one symbol over every trend and entry frame
NextTrend ==
    \E symbol \in DeepSymbols, df_1h \in TrendFrames1h, df_15m \in Frames15m :
        /\ Len(signal_log) < MaxProcess
        /\ process_observed(symbol, df_1h, df_15m)

---------------------------------------------------------------------------
(* Specifications *)

\* two symbols side by side, both constructor configurations
InitLedger ==
    /\ \E c \in Configs : PaperTrader(c[1], c[2], c[3])
    /\ CandleBuffer(BufferKeys)
    /\ BinanceDataFeed(StreamKeys)
    /\ SignalEngine
    /\ TradingSystem
    /\ Subscribers(Wired)

\* the defaults of run_paper.py with a 10,000 dollar account
InitDefault(keys) ==
    /\ PaperTrader(1000000, 10, 50)
    /\ CandleBuffer(keys)
    /\ BinanceDataFeed(keys)
    /\ SignalEngine
    /\ TradingSystem
    /\ Subscribers(Wired)

InitLedgerDeep == InitDefault(BufferKeys)

InitBuffer == InitDefault(BufferKeys)

InitPoll == InitDefault(FeedKeys)

InitFeed == InitDefault(StreamKeys)

SpecLedger == InitLedger /\ [][NextLedger]_vars

SpecLedgerDeep == InitLedgerDeep /\ [][NextLedgerDeep]_vars

SpecBuffer == InitBuffer /\ [][NextBuffer]_vars

SpecPoll == InitPoll /\ [][NextPoll]_vars

SpecFeed == InitFeed /\ [][NextFeed]_vars

InitSignal == InitDefault(BufferKeys)

InitCallbacks ==
    /\ PaperTrader(1000000, 10, 50)
    /\ CandleBuffer(StreamKeys)
    /\ BinanceDataFeed(StreamKeys)
    /\ SignalEngine
    /\ TradingSystem
    /\ \E cbs \in CallbackConfigs : Subscribers(cbs)

SpecCallbacks == InitCallbacks /\ [][NextCallbacks]_vars

\* the trader of the module's own test: PaperTrader(starting_balance=1000.0)
InitExits ==
    /\ PaperTrader(100000, 10, 50)
    /\ CandleBuffer(BufferKeys)
    /\ BinanceDataFeed(BufferKeys)
    /\ SignalEngine
    /\ TradingSystem
    /\ Subscribers(Wired)

SpecExits == InitExits /\ [][NextExits]_vars

InitTrend == InitDefault(BufferKeys)

SpecTrend == InitTrend /\ [][NextTrend]_vars

InitObserved == InitDefault(BufferKeys)

SpecObserved == InitObserved /\ [][NextObserved]_vars

SpecSignal == InitSignal /\ [][NextSignal]_vars

InitSystem == InitDefault(BufferKeys)

\* one symbol, every conviction, the sizing configurations
InitSizing ==
    /\ \E c \in SizingConfigs : PaperTrader(c[1], c[2], c[3])
    /\ CandleBuffer(BufferKeys)
    /\ BinanceDataFeed(StreamKeys)
    /\ SignalEngine
    /\ TradingSystem
    /\ Subscribers(Wired)

SpecSizing == InitSizing /\ [][NextSizing]_vars

SpecSystem == InitSystem /\ [][NextSystem]_vars

InitRealtime == InitDefault(BufferKeys)

SpecRealtime == InitRealtime /\ [][NextRealtime]_vars

InitThreads == InitDefault(BufferKeys)

SpecThreads == InitThreads /\ [][NextThreads]_vars

InitDashboard == InitDefault(BufferKeys)

InitSupertrend == InitDefault(BufferKeys)

SpecSupertrend == InitSupertrend /\ [][NextSupertrend]_vars

SpecDashboard == InitDashboard /\ [][NextDashboard]_vars

---------------------------------------------------------------------------
(* Properties of PaperTrader *)

\* C1: open_position returns False, emits no OPEN event and leaves the
\* positions (every field), the balance and the trade history unchanged
\* whenever the symbol already has a position or the signal kind is neither
\* BUY nor SELL.
C1_RejectedOpenChangesNothing ==
    [][\A symbol \in Symbols, kind \in Kinds, price \in OpenPrices,
          conv5 \in Convictions :
          (/\ open_position(symbol, kind, price, conv5)
           /\ (has_position(symbol) \/ kind \notin {"BUY", "SELL"}))
          => /\ last'.ret = "False"
             /\ positions' = positions
             /\ balance' = balance
             /\ trades' = trades
             /\ events' = events]_vars

\* a second open for a symbol that holds a position was rejected
C1_Witness ==
    /\ last.op = "open"
    /\ last.ret = "False"
    /\ has_position(last.symbol)

\* C2: in update_position a price that has crossed take_profit returns TP,
\* and a price that has crossed stop_loss (and not take_profit) returns SL,
\* whatever the trailing-stop and timeout conditions are on that update.
C2_TpThenSlFirst ==
    [][\A symbol \in Symbols, price \in UpdatePrices :
          (update_position(symbol, price) /\ has_position(symbol))
          => /\ TpHit(positions[symbol], price) => last'.ret = "TP"
             /\ (SlHit(positions[symbol], price) /\ ~TpHit(positions[symbol], price))
                    => last'.ret = "SL"]_vars

\* TP was returned on an update on which the timeout was due as well
C2_Witness ==
    /\ last.op = "update"
    /\ last.ret = "TP"
    /\ last.hold >= max_hold_candles

\* C3: no position remains open with hold_candles >= 32: an update on which
\* the hold count has reached 32 and neither TP, SL nor TRAIL matches closes
\* the position with TIMEOUT.
C3_TimeoutGuaranteed ==
    \A symbol \in DOMAIN positions :
        positions[symbol].hold_candles < max_hold_candles

---------------------------------------------------------------------------
(* Properties of BinanceDataFeed *)

\* C4 as stated: after max_retries (5) consecutive connection failures
\* _connect is stopped: running is false and the loop has exited.
C4_StoppedAtMaxRetries ==
    retry_count >= max_retries => (pc = "done" /\ ~running)

\* C4, amended: _connect stops (running false, loop exited) when the count of
\* consecutive failures exceeds max_retries, that is on the 6th failure in a
\* row, and once it has stopped it delivers no candle notification and
\* writes no candle; after exactly max_retries failures in a row a feed that
\* had connected and was not asked to stop is still running, in BACKOFF or
\* CONNECTING.
C4_StopsWhenRetriesExceeded ==
    /\ [](retry_count > max_retries => (pc = "done" /\ ~running))
    /\ []((retry_count = max_retries /\ ws # "None" /\ ~stop_called)
            => (running /\ pc \in {"backoff", "connecting"}))
    /\ [][pc = "done"
            => (pc' = "done" /\ ~running' /\ delivered' = {} /\ data' = data)]_vars

\* the 6th connection failure in a row has stopped the feed
C4_Witness ==
    /\ retry_count = max_retries + 1
    /\ pc = "done"
    /\ ~stop_called

\* C5: once stop() has been called the feed never sets itself running
\* again, opens no new connection and delivers no further candle
\* notification.
C5_StopHalts ==
    [][stop_called
        => /\ ~running'
           /\ ~(pc = "connecting" /\ pc' = "streaming")
           /\ delivered' = {}]_vars

---------------------------------------------------------------------------
(* Properties of CandleBuffer *)

\* C6: after any sequence of add_candle calls on any keys, no series holds
\* more than max_candles candles.
C6_SeriesBounded ==
    \A key \in DOMAIN data : Len(data[key]) <= MaxCandles

\* an append has overflowed a full series and popped its first candle
C6_Witness ==
    /\ upsert.op = "add_candle"
    /\ upsert.effects[1].kind = "evict"
    /\ Len(data[upsert.key]) = MaxCandles

Sorted(candles) ==
    \A i, j \in 1..Len(candles) :
        i < j => candles[i].timestamp < candles[j].timestamp

\* C7: after any sequence of polling cycles, every series in the candle
\* store is ordered by timestamp and holds each timestamp at most once.
C7_SeriesOrderedUnique ==
    \A key \in DOMAIN data : Sorted(data[key])

\* C8: add_candle with the timestamp of the key's last stored candle
\* replaces that candle: the length is unchanged, the new candle is the last
\* one and every earlier candle is untouched; any other add_candle appends
\* (dropping at most the first candle), so no candle but the last is ever
\* rewritten.
C8_UpsertReplacesLast ==
    [][\A key \in BufferKeys : \A ts \in BufferTimes(key), v \in Values :
          add_candle(key, Candle(ts, v))
          => LET old == Series(data, key)
                 new == data'[key]
                 n == Len(old)
             IN  IF n > 0 /\ old[n].timestamp = ts
                 THEN /\ Len(new) = n
                      /\ new[n] = Candle(ts, v)
                      /\ \A i \in 1..(n - 1) : new[i] = old[i]
                 ELSE new \in {Append(old, Candle(ts, v)),
                               Tail(Append(old, Candle(ts, v)))}]_vars

\* the last of two stored candles was replaced by a candle of its timestamp
C8_Witness ==
    /\ upsert.op = "add_candle"
    /\ upsert.effects[1].kind = "update"
    /\ Len(data[upsert.key]) >= 2
    /\ data[upsert.key][Len(data[upsert.key])] = upsert.candle

\* C9: whenever an append makes a series exceed max_candles, the candle
\* evicted is the one with the smallest timestamp of the series.
C9_EvictsOldest ==
    upsert.op = "fetch_latest"
    => \A key \in DOMAIN upsert.effects :
          \A i \in 1..Len(upsert.effects[key]) :
             upsert.effects[key][i].kind = "evict"
             => upsert.effects[key][i].popped = upsert.effects[key][i].oldest

---------------------------------------------------------------------------
(* Properties of SignalEngine *)

\* the kind process returned for the symbol of call i on its previous call
PrecedingKind(i) ==
    LET before == {j \in 1..(i - 1) : signal_log[j].symbol = signal_log[i].symbol}
    IN  IF before = {} THEN "HOLD"
        ELSE signal_log[CHOOSE j \in before : \A k \in before : k <= j].kind

\* C10: a process call notifies the callbacks exactly when its result is not
\* HOLD and differs in kind from the result of the preceding call for the
\* same symbol (HOLD when there was none), whatever was returned for other
\* symbols in between, and the result of the latest call is what
\* last_signals holds for the symbol.
C10_NotifiesOnChangeOnly ==
    \A i \in 1..Len(signal_log) :
        /\ signal_log[i].notified
              <=> (/\ signal_log[i].kind # "HOLD"
                   /\ signal_log[i].kind # PrecedingKind(i))
        /\ (\A j \in (i + 1)..Len(signal_log) :
                signal_log[j].symbol # signal_log[i].symbol)
              => /\ signal_log[i].symbol \in DOMAIN last_signals
                 /\ last_signals[signal_log[i].symbol].signal = signal_log[i].kind

\* BUY, HOLD, BUY for one symbol has notified twice
C10_Witness ==
    /\ Len(signal_log) = 3
    /\ \A i \in 1..3 : signal_log[i].symbol = "BTCUSDT"
    /\ <<signal_log[1].kind, signal_log[2].kind, signal_log[3].kind>>
          = <<"BUY", "HOLD", "BUY">>
    /\ <<signal_log[1].notified, signal_log[2].notified, signal_log[3].notified>>
          = <<TRUE, FALSE, TRUE>>
    /\ Len(signalled) = 1

---------------------------------------------------------------------------
(* Properties of the trading systems *)

\* C11: process_candle run again for a symbol while the candle store gives
\* the same frames and the same last close leaves the ledger as the first
\* run left it: the positions (hold_candles and max_pnl_pct included), the
\* balance and the trade history do not change.
C11_ReprocessIdempotent ==
    [][\A symbol \in Symbols :
          (process_candle(symbol) /\ symbol \in processed)
          => /\ positions' = positions
             /\ balance' = balance
             /\ trades' = trades]_vars

---------------------------------------------------------------------------
(* Properties of PaperTrader, continued *)

\* C12: close_position on an open position takes the exit price after
\* slippage against the position (exit * 1999/2000 for BUY, exit * 2001/2000
\* for SELL), books net_pnl = margin * leverage * pnl_pct - margin * leverage
\* * 0.0008 with pnl_pct from that exit against the entry in the position's
\* direction, adds exactly net_pnl to the balance, removes the position,
\* appends exactly one Trade and emits exactly one CLOSE event with the
\* symbol, the direction, the adjusted exit price, the net pnl and the reason.
C12_CloseBooksNetPnl ==
    [][\A symbol \in Symbols, price \in ClosePrices, reason \in CloseReasons :
          (close_position(symbol, price, reason) /\ has_position(symbol))
          => LET pos == positions[symbol]
                 buy == pos.direction = "BUY"
                 exit == IF buy THEN price * 1999 ELSE price * 2001
                 pnl == IF buy THEN exit - pos.entry_price ELSE pos.entry_price - exit
                 notional == pos.margin * pos.leverage
                 net == MulDiv(notional, pnl, pos.entry_price) - (notional * 8) \div 10000
             IN  /\ balance' = balance + net
                 /\ positions' = [s \in DOMAIN positions \ {symbol} |-> positions[s]]
                 /\ Len(trades') = Len(trades) + 1
                 /\ SubSeq(trades', 1, Len(trades)) = trades
                 /\ trades'[Len(trades')].symbol = symbol
                 /\ trades'[Len(trades')].exit_price = exit
                 /\ trades'[Len(trades')].pnl = net
                 /\ trades'[Len(trades')].exit_reason = reason
                 /\ events' = Append(events,
                        [type |-> "CLOSE", symbol |-> symbol,
                         direction |-> pos.direction, exit_price |-> exit,
                         pnl |-> net, reason |-> reason])]_vars

\* a SELL position was closed by a direct close_position call at a loss (the
\* slippage and the costs)
C12_Witness ==
    /\ last.op = "close"
    /\ Len(events) >= 2
    /\ events[Len(events)].type = "CLOSE"
    /\ events[Len(events)].reason = "TIMEOUT"
    /\ events[Len(events)].symbol = last.symbol
    /\ events[Len(events)].direction = "SELL"
    /\ events[Len(events)].exit_price = 100 * 2001
    /\ events[Len(events)].pnl < 0
    /\ ~has_position(last.symbol)

\* C13: the balance is mutated only by closing a position: open_position,
\* accepted or rejected, and every update_position call that triggers no exit
\* leave the balance and the trade history unchanged, and whenever the
\* balance changes a Trade is appended and a CLOSE event is emitted.
C13_BalanceChangesOnCloseOnly ==
    [][
        /\ \A symbol \in Symbols, kind \in Kinds, price \in OpenPrices,
             conv5 \in Convictions :
             open_position(symbol, kind, price, conv5)
             => (balance' = balance /\ trades' = trades)
        /\ \A symbol \in Symbols, price \in UpdatePrices :
             (update_position(symbol, price) /\ last'.ret = NoReturn)
             => (balance' = balance /\ trades' = trades)
        /\ (balance' # balance)
             => (/\ Len(trades') = Len(trades) + 1
                 /\ Len(events') = Len(events) + 1
                 /\ events'[Len(events')].type = "CLOSE")]_vars

\* an accepted open and then an update without exit have left the balance
\* and the trade history as constructed
C13_Witness ==
    /\ last.op = "update"
    /\ last.ret = NoReturn
    /\ last.hold >= 1
    /\ has_position(last.symbol)
    /\ Len(events) = 1
    /\ events[1].type = "OPEN"
    /\ balance = starting_balance
    /\ trades = <<>>

\* C14: every accepted open gives the position the leverage
\* clamp(round(min_lev + conviction * (max_lev - min_lev)), min_lev, max_lev),
\* the fraction rounded to the nearest integer, for every conviction in
\* {0, 0.2, 0.4, 0.6, 0.8, 1.0}.
C14_LeverageRounded ==
    [][\A symbol \in Symbols, kind \in {"BUY", "SELL"}, price \in OpenPrices,
          conv5 \in AllConvictions :
          (open_position(symbol, kind, price, conv5) /\ ~has_position(symbol))
          => LET span == max_leverage - min_leverage
                 rounded == min_leverage + (2 * conv5 * span + 5) \div 10
             IN  positions'[symbol].leverage
                    = Min(max_leverage, Max(min_leverage, rounded))]_vars

\* C15 as stated: every accepted open gives the position a margin that is
\* never below 100 dollars and never above 5% of the balance at open time.
C15_MarginWithinFloorAndCap ==
    [][\A symbol \in Symbols, kind \in {"BUY", "SELL"}, price \in OpenPrices,
          conv5 \in AllConvictions :
          (open_position(symbol, kind, price, conv5) /\ ~has_position(symbol))
          => /\ positions'[symbol].margin >= 10000
             /\ positions'[symbol].margin * 20 <= balance]_vars

\* C15, amended: every accepted open gives the position the margin
\* min(balance * 0.05, max(balance * 0.02 * (0.5 + 0.5 * conviction), 100)):
\* it is never above 5% of the balance at open time, it is never below 100
\* dollars when the balance is at least 2,000 dollars, and it is 5% of the
\* balance, below 100 dollars, when the balance is below 2,000 dollars.
C15_MarginCapWins ==
    [][\A symbol \in Symbols, kind \in {"BUY", "SELL"}, price \in OpenPrices,
          conv5 \in AllConvictions :
          (open_position(symbol, kind, price, conv5) /\ ~has_position(symbol))
          => LET m == positions'[symbol].margin
                 base == (balance * (5 + conv5)) \div 500
                 cap == balance \div 20
             IN  /\ m <= cap
                 /\ balance >= 200000 => m >= 10000
                 /\ balance < 200000 => (m = cap /\ m < 10000)
                 /\ (10000 <= base /\ base <= cap) => m = base
                 /\ (base < 10000 /\ 10000 <= cap) => m = 10000]_vars

\* a position was opened on a balance below 2,000 dollars with a margin
\* below 100 dollars
C15_Witness ==
    /\ last.op = "open"
    /\ last.ret = "True"
    /\ has_position(last.symbol)
    /\ balance < 200000
    /\ positions[last.symbol].margin = balance \div 20
    /\ positions[last.symbol].margin < 10000

\* C16: get_stats on a trade history with no losing trade and at least one
\* winning trade reports profit_factor as "inf" and raises no division error
\* (stats.total_trades = Len(trades) holds of the stats of the current
\* history, which only grows).
C16_ProfitFactorInf ==
    (/\ stats.total_trades >= 1
     /\ stats.total_trades = Len(trades)
     /\ \A i \in 1..Len(trades) : trades[i].pnl > 0)
    => /\ stats.profit_factor = "inf"
       /\ stats.winners = Len(trades)
       /\ stats.losers = 0

\* get_stats was called on a history of winning trades only
C16_Witness ==
    /\ stats.total_trades >= 1
    /\ stats.total_trades = Len(trades)
    /\ stats.losers = 0
    /\ stats.winners >= 1
    /\ stats.profit_factor = "inf"
    /\ \A i \in 1..Len(trades) : trades[i].pnl > 0

\* a field of a returned signal; the neutral signal has no score, conviction
\* or price key
Field(signal, f) == IF f \in DOMAIN signal THEN signal[f] ELSE "absent"

SignalFields == {"signal", "direction", "score", "conviction", "price", "reason"}

TradeEventBooked ==
    events # <<>> =>
        LET e == events[Len(events)] IN
        IF e.type = "OPEN"
        THEN has_position(e.symbol) /\ OpenEvent(positions[e.symbol]) = e
        ELSE /\ ~has_position(e.symbol)
             /\ trades # <<>>
             /\ trades[Len(trades)].symbol = e.symbol
             /\ trades[Len(trades)].pnl = e.pnl
             /\ balance = starting_balance + SumPnl(trades)

\* the state change of the last process call of each symbol: its signal is
\* the stored one
SignalStored ==
    \A i \in 1..Len(signal_log) :
        (\A j \in (i + 1)..Len(signal_log) :
            signal_log[j].symbol # signal_log[i].symbol)
        => /\ signal_log[i].symbol \in DOMAIN last_signals
           /\ last_signals[signal_log[i].symbol].signal = signal_log[i].kind

\* the state change of a delivered candle: it is in its series
CandleUpserted ==
    \A d \in delivered :
        /\ upsert.op = "recv" /\ upsert.candle.timestamp = d.timestamp
        /\ \E i \in 1..Len(Series(data, d.key)) :
               Series(data, d.key)[i] = upsert.candle

\* C18: whichever callbacks raise, a _notify_callbacks run for a candle, a
\* signal or a trade event calls every callback of the list in order, no
\* exception leaves it, and the emitter's state change stands: the candle is
\* in the buffer, the signal is stored, the position is opened or closed and
\* the balance updated.
C18_CallbacksIsolated ==
    /\ invoked.emitter # ""
         => /\ invoked.calls = [i \in 1..Len(callbacks[invoked.emitter]) |-> i]
            /\ ~invoked.raised
    /\ TradeEventBooked
    /\ SignalStored
    /\ CandleUpserted

\* every emitter has a raising callback ahead of a returning one; a position
\* was opened and closed, a signal was sent, and the last step delivered a
\* candle to both callbacks of the feed
C18_Witness ==
    /\ \A e \in Emitters : callbacks[e] = <<"raises", "ok">>
    /\ events # <<>> /\ events[Len(events)].type = "CLOSE"
    /\ \E i \in 1..Len(signal_log) : signal_log[i].notified
    /\ delivered # {}
    /\ invoked = [emitter |-> "feed", calls |-> <<1, 2>>, raised |-> FALSE]

\* C19: a stop of either system leaves the open positions, every field of
\* each, the balance and the trade history as they were.
C19_StopKeepsPositions ==
    [][(\E realtime \in BOOLEAN : system_stop(realtime))
          => UNCHANGED <<positions, balance, trades>>]_vars

\* the system was stopped with a position open and a trade in the history
C19_Witness ==
    /\ sys.op = "stop"
    /\ positions # <<>>
    /\ trades # <<>>
    /\ stats.total_trades = Len(trades)

\* C20: update_position and close_position on a symbol without an open
\* position return none, emit no event, append no Trade and leave the balance
\* and every position unchanged.
C20_NoPositionNoOp ==
    [][\A symbol \in Symbols :
          (/\ ~has_position(symbol)
           /\ \/ \E price \in UpdatePrices : update_position(symbol, price)
              \/ \E price \in ClosePrices, reason \in CloseReasons :
                     close_position(symbol, price, reason))
          => /\ last'.ret = NoReturn
             /\ UNCHANGED <<events, trades, balance, positions, invoked>>]_vars

\* close_position was called for a symbol without a position while the other
\* symbol's position stayed open
C20_Witness ==
    /\ last.op = "close"
    /\ last.ret = NoReturn
    /\ ~has_position(last.symbol)
    /\ positions # <<>>
    /\ Len(events) = 1
    /\ trades = <<>>
    /\ balance = starting_balance

---------------------------------------------------------------------------
(* Properties of the trend filter and the entry scorer *)

\* the full EMA stacks and the band with partial alignment, of a 1h row
StackUp(f) == f.EMA_8 > f.EMA_21 /\ f.EMA_21 > f.EMA_50
StackDown(f) == f.EMA_8 < f.EMA_21 /\ f.EMA_21 < f.EMA_50
BandUp(f) == f.st_dir = 1 /\ f.EMA_8 > f.EMA_21
BandDown(f) == f.st_dir = -1 /\ f.EMA_8 < f.EMA_21

B(cond) == IF cond THEN 1 ELSE 0

\* the number of entry conditions a 15m row meets for a trend: proximity to
\* EMA 13 (tenths of a percent), RSI, momentum, candle body, volume (tenths)
EntryScore(row, bullish) ==
    IF bullish
    THEN B(-20 < row.dist_ema13 /\ row.dist_ema13 < 15) + B(30 < row.RSI /\ row.RSI < 70)
         + B(row.MACD > row.MACD_sig \/ row.MACD > row.prev_MACD)
         + B(row.body > 0) + B(row.vol_ratio > 5)
    ELSE B(-15 < row.dist_ema13 /\ row.dist_ema13 < 20) + B(30 < row.RSI /\ row.RSI < 70)
         + B(row.MACD < row.MACD_sig \/ row.MACD < row.prev_MACD)
         + B(row.body < 0) + B(row.vol_ratio > 5)

\* C22: under a non-neutral trend, with 30 or more 15m candles the signal is
\* BUY (bullish) or SELL (bearish) iff at least 2 of the five conditions
\* hold, with score that count and conviction score/5 (kept in fifths); with
\* fewer than 2 it is HOLD; with fewer than 30 candles it is HOLD.
C22_EntryScorer ==
    (memo.symbol # "" /\ memo.signal.direction # "NEUTRAL") =>
        LET row == memo.df_15m
            sig == memo.signal
            bullish == sig.direction = "BULLISH"
            n == EntryScore(row, bullish)
        IN  IF row.len < 30 THEN sig.signal = "HOLD"
            ELSE /\ sig.signal = "BUY" <=> (bullish /\ n >= 2)
                 /\ sig.signal = "SELL" <=> (~bullish /\ n >= 2)
                 /\ sig.signal = "HOLD" <=> n < 2
                 /\ n >= 2 => sig.score = n /\ sig.conviction = n

\* a row meeting exactly 2 of the BUY conditions gave BUY with score 2 under
\* a bullish trend
C22_Witness ==
    /\ memo.symbol # ""
    /\ memo.signal.direction = "BULLISH"
    /\ memo.df_15m.len >= 30
    /\ EntryScore(memo.df_15m, TRUE) = 2
    /\ memo.signal.signal = "BUY"
    /\ memo.signal.score = 2
    /\ memo.signal.conviction = 2

---------------------------------------------------------------------------
(* Properties of the feed's reconnection *)

\* C23: _connect ends only on a stop request or once the count of
\* consecutive failures exceeds max_retries: a feed that was never asked to
\* stop has not left its loop while retry_count <= max_retries.
C23_GivesUpOnlyPastMaxRetries ==
    (pc = "done" /\ ~stop_called) => retry_count > max_retries

---------------------------------------------------------------------------
(* Properties of the exits *)

\* price (in dollars) at or beyond take_profit = entry * (1 +- 1.5%) and
\* stop_loss = entry * (1 -+ 0.8%), for entry = e / SlipDen
AtTakeProfit(direction, e, price) ==
    IF direction = "BUY" THEN price * SlipDen * 1000 >= e * 1015
    ELSE price * SlipDen * 1000 <= e * 985

AtStopLoss(direction, e, price) ==
    IF direction = "BUY" THEN price * SlipDen * 1000 <= e * 992
    ELSE price * SlipDen * 1000 >= e * 1008

C25_MessageErrorBacksOff ==
    [][recv_error => (pc' = "backoff" /\ retry_count' = retry_count + 1)]_vars

\* C26: while _connect sleeps after the k-th failure in a row its delay is
\* 2, 4, 8, 16 or 32 seconds for k = 1 .. 5 (base_delay * 2^(k-1)); a
\* successful connection resets retry_count to 0, and retry_count otherwise
\* only grows by one per failure, so failures before a connection do not
\* count after it.
C26_BackoffDoubles ==
    /\ [](pc = "backoff"
            => /\ retry_count \in 1..max_retries
               /\ delay = <<2, 4, 8, 16, 32>>[retry_count])
    /\ [][connect_ok => retry_count' = 0]_vars
    /\ [][retry_count' # retry_count
            => (retry_count' = 0 \/ retry_count' = retry_count + 1)]_vars

\* a feed that had failed, reconnected and failed three more times sleeps 8 s
C26_Witness ==
    /\ pc = "backoff"
    /\ retry_count = 3
    /\ delay = 8
    /\ running

\* C27: update_position closes with TRAIL exactly when the price is neither
\* at take_profit nor at stop_loss, max_pnl_pct after this update's
\* high-water update is above trail_pct (0.7%), and the pnl is below
\* max_pnl_pct - trail_pct; the position is then closed with reason TRAIL.
C27_TrailExactly ==
    [][\A symbol \in DeepSymbols : \A price \in ExitUpdatePrices(symbol) :
          (has_position(symbol) /\ update_position(symbol, price))
          => LET pos == positions[symbol]
                 e == pos.entry_price
                 pnlN == PnlN(pos, price * SlipDen)
                 maxN == Max(pos.max_pnl_pct, pnlN)
             IN  /\ last'.ret = "TRAIL"
                       <=> /\ ~AtTakeProfit(pos.direction, e, price)
                           /\ ~AtStopLoss(pos.direction, e, price)
                           /\ maxN * 1000 > 7 * e
                           /\ pnlN * 1000 < (maxN * 1000) - (7 * e)
                 /\ last'.ret = "TRAIL"
                       => /\ ~has_position(symbol)'
                          /\ events'[Len(events')].type = "CLOSE"
                          /\ events'[Len(events')].reason = "TRAIL"]_vars

\* a BUY from 420 that had reached 425 (1.14%) was closed with TRAIL
C27_Witness ==
    /\ last.op = "update" /\ last.ret = "TRAIL"
    /\ events[Len(events)].type = "CLOSE"
    /\ events[Len(events)].reason = "TRAIL"
    /\ events[Len(events)].direction = "BUY"
    /\ trades[Len(trades)].entry_price = 420 * 2001
    /\ trades[Len(trades)].exit_price = 421 * 1999

\* C28: over the update_position calls of one open position, max_pnl_pct
\* never decreases, is never negative and is at least the pnl_pct of the
\* call (so, by the first, of every earlier call), and hold_candles grows by
\* exactly one per call, no other field changing; every step that is
\* not an update_position of the symbol leaves its open position as it was.
C28_HighWaterAndHold ==
    /\ [](\A symbol \in DeepSymbols :
            has_position(symbol)
            => /\ positions[symbol].max_pnl_pct >= 0
               /\ positions[symbol].hold_candles >= 0)
    /\ [][\A symbol \in DeepSymbols :
            has_position(symbol)
            => /\ \A price \in ExitUpdatePrices(symbol) :
                      update_position(symbol, price)
                      => /\ last'.hold = positions[symbol].hold_candles + 1
                         /\ has_position(symbol)'
                               => /\ positions'[symbol].hold_candles
                                       = positions[symbol].hold_candles + 1
                                  /\ positions'[symbol].max_pnl_pct
                                       >= positions[symbol].max_pnl_pct
                                  /\ positions'[symbol].max_pnl_pct
                                       >= PnlN(positions[symbol], price * SlipDen)
                                  /\ [positions'[symbol] EXCEPT
                                         !.hold_candles = 0, !.max_pnl_pct = 0]
                                       = [positions[symbol] EXCEPT
                                            !.hold_candles = 0, !.max_pnl_pct = 0]
               /\ (last'.op # "update" \/ last'.symbol # symbol)
                      => (has_position(symbol)'
                            => positions'[symbol] = positions[symbol])]_vars

\* a SELL from 200 saw 199 (0.45%) and then 201: still open after two
\* updates with the high-water mark of the first, and an open_position on
\* the symbol was then refused
C28_Witness ==
    /\ has_position("BTCUSDT")
    /\ positions["BTCUSDT"].direction = "SELL"
    /\ positions["BTCUSDT"].entry_price = 200 * 1999
    /\ positions["BTCUSDT"].hold_candles = 2
    /\ positions["BTCUSDT"].max_pnl_pct = 1800
    /\ last.op = "open" /\ last.ret = "False"

\* C29: a close of the 1h stream alone evaluates no signal, opens no
\* position and adds no hold period: a step whose notification is a closed
\* 1h candle leaves the engine's log of process calls and the positions as
\* they were.
C29_HigherTimeframeCloseIsIdle ==
    [][(\E d \in delivered' : d.key[2] = "1h" /\ d.is_closed)
          => UNCHANGED <<signal_log, positions>>]_vars

\* C30: close_position calls for two symbols run in parallel leave the
\* ledger as some serial order would: once no call is in progress, the
\* balance is the starting balance plus the net pnl of every recorded Trade.
C30_ParallelClosesAddUp ==
    (\A s \in Symbols : workers[s].at = "idle")
        => balance = starting_balance + SumPnl(trades)

\* C31: after any start_bot and stop_bot calls at most one background loop
\* processes: a loop started before a stop_bot never runs its body after a
\* later start_bot, so the loop body run last since the last start was run
\* by the thread that start created.
C31_OneLoop ==
    bot.writer \in {0, Len(bot.loops)}

\* C32: the Supertrend loop ratchets its stop: on every row that is bullish
\* after a bullish row the stop is max(previous stop, lower band), and on
\* every row that is bearish after a bearish row it is min(previous stop,
\* upper band).
C32_RatchetingStop ==
    \A i \in 2..Len(trend.st) :
        /\ (trend.direction[i - 1] = 1 /\ trend.direction[i] = 1)
              => trend.st[i] = Max(trend.st[i - 1], trend.lower[i])
        /\ (trend.direction[i - 1] = -1 /\ trend.direction[i] = -1)
              => trend.st[i] = Min(trend.st[i - 1], trend.upper[i])

\* C33: every Trade records the conviction of the signal that opened its
\* position, the conviction its leverage was computed from, and its
\* exit_reason is one of TP, SL, TRAIL, TIMEOUT.
C33_TradeKeepsConviction ==
    \A i \in 1..Len(trades) :
        /\ trades[i].leverage
              = Leverage(min_leverage, max_leverage, trades[i].conviction)
        /\ trades[i].exit_reason \in {"TP", "SL", "TRAIL", "TIMEOUT"}

\* C34: statistics reporting never faults, an empty trade history included:
\* the print_summary of a stop raises nothing.
C34_SummaryNeverFaults ==
    sys.op = "stop" => ~sys.raised

\* C35: a candle notification with is_closed false changes no decision
\* state: no signal is evaluated, no position opened, updated or closed, no
\* hold_candles added, and the balance and last_signals stay as they were.
C35_OpenCandleIsIdle ==
    [][(\E d \in delivered' : ~d.is_closed)
          => UNCHANGED <<ledgerVars, signalVars, stats>>]_vars

\* an update of the 15m candle in progress was delivered while a position
\* opened by an earlier close was held, and left it with no hold period
C35_Witness ==
    /\ delivered = {[key |-> <<"BTCUSDT", "15m">>, timestamp |-> 1,
                     is_closed |-> FALSE]}
    /\ has_position("BTCUSDT")
    /\ positions["BTCUSDT"].hold_candles = 0
    /\ sys.op = "process_candle"

\* C36: every position the ledger holds has a leverage between min_leverage
\* and max_leverage, for every conviction from 0 to 1 and every
\* configuration with min_leverage <= max_leverage.
C36_LeverageInRange ==
    \A symbol \in DOMAIN positions :
        positions[symbol].leverage \in min_leverage..max_leverage

\* a position sized at full conviction holds the top of a proper range
C36_Witness ==
    /\ min_leverage < max_leverage
    /\ \E symbol \in DOMAIN positions :
           positions[symbol].leverage = max_leverage

\* the net pnl of the CLOSE events, as sent to the callbacks
RECURSIVE BookedPnl(_)
BookedPnl(evs) ==
    IF evs = <<>> THEN 0
    ELSE (IF Head(evs).type = "CLOSE" THEN Head(evs).pnl ELSE 0) + BookedPnl(Tail(evs))

\* C37: after any open, update and close operations the balance less the
\* starting balance is the sum of the net pnl booked by every close, and the
\* trade history has one Trade per close that found an open position.
C37_BalanceConservation ==
    /\ balance - starting_balance = BookedPnl(events)
    /\ Len(trades) = Cardinality({i \in 1..Len(events) : events[i].type = "CLOSE"})

\* two positions were closed, the second by a direct close_position, and the
\* balance has moved
C37_Witness ==
    /\ Len(trades) = 2
    /\ balance # starting_balance
    /\ last.op = "close"
    /\ events[Len(events)].type = "CLOSE"

\* the events of symbol, in order
EventsOf(symbol) == SelectSeq(events, LAMBDA e : e.symbol = symbol)

\* C38: per symbol OPEN and CLOSE events alternate starting with OPEN; the
\* callbacks given an OPEN find the position stored, and those given a CLOSE
\* find it removed, the balance updated and the Trade appended; no step
\* sends more than one event, so a position closed in one process_candle
\* is not reopened in it.
C38_EventsAlternate ==
    /\ [](\A symbol \in Symbols :
            \A i \in 1..Len(EventsOf(symbol)) :
                EventsOf(symbol)[i].type = IF i % 2 = 1 THEN "OPEN" ELSE "CLOSE")
    /\ [](invoked.emitter = "trader"
            => LET e == events[Len(events)] IN
               IF e.type = "OPEN"
               THEN e.symbol \in invoked.seen.held
               ELSE /\ e.symbol \notin invoked.seen.held
                    /\ invoked.seen.balance = starting_balance + BookedPnl(events)
                    /\ invoked.seen.trades
                         = Cardinality({i \in 1..Len(events) : events[i].type = "CLOSE"})
                    /\ trades[invoked.seen.trades].symbol = e.symbol)
    /\ [][/\ Len(events') <= Len(events) + 1
          /\ \A symbol \in Symbols :
                (has_position(symbol) /\ Len(trades') > Len(trades)
                   /\ trades'[Len(trades')].symbol = symbol)
                => ~has_position(symbol)']_vars

\* a symbol was opened, closed and opened again, the callbacks of the last
\* OPEN finding the position, the balance of the close and one Trade
C38_Witness ==
    /\ Len(EventsOf("BTCUSDT")) = 3
    /\ events[Len(events)].type = "OPEN"
    /\ invoked.emitter = "trader"
    /\ invoked.seen.held = {"BTCUSDT"}
    /\ invoked.seen.trades = 1
    /\ invoked.seen.balance # starting_balance
    /\ sys.op = "process_candle"

\* C39: the signal kind agrees with the trend direction: every stored signal
\* is BUY only with BULLISH, SELL only with BEARISH and HOLD with NEUTRAL,
\* every BUY or SELL has a score from 2 to 5 and the conviction score/5
\* (kept in fifths); so every position process_candle opens is a BUY under
\* a bullish 1h frame or a SELL under a bearish one.
C39_SignalFollowsTrend ==
    /\ [](\A symbol \in DOMAIN last_signals :
            LET sig == last_signals[symbol] IN
            /\ sig.signal = "BUY" => sig.direction = "BULLISH"
            /\ sig.signal = "SELL" => sig.direction = "BEARISH"
            /\ sig.direction = "NEUTRAL" => sig.signal = "HOLD"
            /\ sig.signal \in {"BUY", "SELL"}
                  => /\ sig.score \in 2..5
                     /\ sig.conviction = sig.score)
    /\ [][\A symbol \in Symbols :
            (~has_position(symbol) /\ has_position(symbol)')
            => LET direction == get_1h_direction(view[symbol].df_1h) IN
               /\ positions'[symbol].direction = "BUY" => direction = 1
               /\ positions'[symbol].direction = "SELL" => direction = -1]_vars

\* a SELL position is held, opened on a SELL signal of score 3 stored with
\* the BEARISH direction
C39_Witness ==
    /\ has_position("BTCUSDT")
    /\ positions["BTCUSDT"].direction = "SELL"
    /\ "BTCUSDT" \in DOMAIN last_signals
    /\ last_signals["BTCUSDT"].signal = "SELL"
    /\ last_signals["BTCUSDT"].direction = "BEARISH"
    /\ last_signals["BTCUSDT"].score = 3
    /\ Len(signal_log) >= 2
    /\ signal_log[1].kind = "HOLD"

\* C40: opening does not depend on the signal being forwarded: process is
\* run only while the symbol has no position, the stored last signal of a
\* symbol stays as it is while its position is open, and every
\* process_candle that finds no position and gets BUY or SELL opens one,
\* whether or not the callbacks were given the signal.
C40_OpenWithoutNotify ==
    [][\A symbol \in DeepSymbols :
          /\ (has_position(symbol) /\ symbol \in DOMAIN last_signals)
                => /\ symbol \in DOMAIN last_signals'
                   /\ last_signals'[symbol] = last_signals[symbol]
                   /\ signal_log' = signal_log
          /\ (/\ process_candle(symbol)
              /\ ~has_position(symbol)
              /\ view[symbol].df_1h.len # 0
              /\ view[symbol].df_15m.len # 0)
                => /\ Len(signal_log') = Len(signal_log) + 1
                   /\ signal_log'[Len(signal_log')].kind \in {"BUY", "SELL"}
                         => /\ has_position(symbol)'
                            /\ positions'[symbol].direction
                                 = signal_log'[Len(signal_log')].kind
                            /\ Len(events') = Len(events) + 1
                            /\ events'[Len(events')].type = "OPEN"]_vars

\* a second position was opened on a signal that was not sent to the
\* callbacks: the only notification went out before the first OPEN
C40_Witness ==
    /\ Opens = 2
    /\ has_position("BTCUSDT")
    /\ events[Len(events)].type = "OPEN"
    /\ Len(signal_log) = 2
    /\ signal_log[1].notified
    /\ ~signal_log[2].notified
    /\ signal_log[2].kind \in {"BUY", "SELL"}
    /\ positions["BTCUSDT"].hold_candles = 0


=============================================================================
